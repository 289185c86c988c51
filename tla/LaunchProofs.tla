---------------------------- MODULE LaunchProofs ----------------------------
(* Theorems about Launch, for any units and any length of command line.    *)
EXTENDS Launch, SequenceLemmas

-----------------------------------------------------------------------------
(* Runs of flags. *)

LEMMA EmptyRun == FlagRun(<<>>) /\ WholeRun(<<>>)
<1>1. Flags(<<>>, {})
  BY DEF Flags
<1>2. {} \in SUBSET (1 .. Len(<<>>))
  OBVIOUS
<1> QED
  BY <1>1, <1>2 DEF FlagRun, WholeRun

(* A known flag, with or without its value, behind a whole run makes a run,*)
(* and a whole one if the flag has the value it wants.                     *)
LEMMA AppendRun ==
    ASSUME NEW s \in Seq(Token), NEW u \in Seq(Token), WholeRun(s),
           Len(u) \in {1, 2}, Known(u[1]), After(u, 1) >= Len(u) + 1
    PROVE  /\ FlagRun(s \o u)
           /\ After(u, 1) = Len(u) + 1 => WholeRun(s \o u)
<1> PICK starts \in SUBSET (1 .. Len(s)) :
           Flags(s, starts) /\ \A i \in starts : After(s, i) <= Len(s) + 1
  BY DEF WholeRun
<1> DEFINE t == s \o u
           more == starts \cup {Len(s) + 1}
<1>1. /\ t \in Seq(Token) /\ Len(t) = Len(s) + Len(u)
      /\ \A j \in 1 .. Len(s) : t[j] = s[j]
      /\ \A j \in 1 .. Len(u) : t[Len(s) + j] = u[j]
  BY ConcatFacts
<1>2. t[Len(s) + 1] = u[1] /\ After(t, Len(s) + 1) = After(u, 1) + Len(s)
  <2>1. t[Len(s) + 1] = u[1]
    BY <1>1
  <2> QED
    BY <2>1 DEF After
<1>3. \A i \in starts : t[i] = s[i] /\ After(t, i) = After(s, i)
  BY <1>1 DEF After
<1> HIDE DEF t
<1>4. more \in SUBSET (1 .. Len(t))
  <2>1. Len(s) \in Nat /\ Len(t) \in Nat /\ Len(t) >= Len(s) + 1
    BY <1>1
  <2>2. \A i \in starts : i \in 1 .. Len(t)
    BY <2>1
  <2>3. \A i \in more : i \in 1 .. Len(t)
    BY <2>1, <2>2
  <2> HIDE DEF more
  <2> QED
    BY <2>3
<1>5. 1 \in more
  <2>1. CASE s = <<>>
    <3>1. Len(s) = 0
      BY <2>1
    <3> QED
      BY <3>1
  <2>2. CASE s # <<>>
    BY <2>2 DEF Flags
  <2> QED
    BY <2>1, <2>2
<1>6. ASSUME NEW i \in more
      PROVE  Known(t[i]) /\ (After(t, i) <= Len(t) => After(t, i) \in more)
  <2>1. CASE i \in starts
    <3>1. Known(s[i]) /\ After(s, i) <= Len(s) + 1
      BY <2>1 DEF Flags
    <3>2. After(s, i) <= Len(s) => After(s, i) \in starts
      BY <2>1 DEF Flags
    <3>3. After(s, i) \in Int
      BY <2>1 DEF After
    <3> QED
      BY <1>3, <2>1, <3>1, <3>2, <3>3
  <2>2. CASE i = Len(s) + 1
    <3>1. After(t, i) > Len(t)
      BY <1>1, <1>2, <2>2 DEF After
    <3> QED
      BY <1>1, <1>2, <2>2, <3>1 DEF After
  <2> QED
    BY <2>1, <2>2
<1>7. Flags(t, more)
  BY <1>4, <1>5, <1>6 DEF Flags
<1>8. FlagRun(t)
  BY <1>4, <1>7 DEF FlagRun
<1>9. ASSUME After(u, 1) = Len(u) + 1
      PROVE  WholeRun(t)
  <2>1. \A i \in more : After(t, i) <= Len(t) + 1
    <3> TAKE i \in more
    <3>1. CASE i \in starts
      BY <1>1, <1>3, <3>1 DEF After
    <3>2. CASE i = Len(s) + 1
      BY <1>1, <1>2, <1>9, <3>2
    <3> QED
      BY <3>1, <3>2
  <2> QED
    BY <1>4, <1>7, <2>1 DEF WholeRun
<1> QED
  BY <1>8, <1>9 DEF t

LEMMA WholeIsRun == ASSUME NEW s, WholeRun(s) PROVE FlagRun(s)
BY DEF WholeRun, FlagRun

(* What is behind the first flag of a run, and its value, is a run.        *)
LEMMA RestRun ==
    ASSUME NEW s \in Seq(Token), FlagRun(s), s # <<>>,
           NEW n \in {1, 2}, n <= Len(s), After(s, 1) = n + 1
    PROVE  FlagRun(SubSeq(s, n + 1, Len(s)))
<1> PICK starts \in SUBSET (1 .. Len(s)) : Flags(s, starts)
  BY DEF FlagRun
<1> DEFINE t == SubSeq(s, n + 1, Len(s))
           less == {i \in 1 .. Len(t) : i + n \in starts}
<1>1. t \in Seq(Token) /\ Len(t) = Len(s) - n /\ \A j \in 1 .. Len(s) - n : t[j] = s[n + j]
  BY SliceFacts
<1> HIDE DEF t
<1>2. \A i \in 1 .. Len(t) : t[i] = s[i + n] /\ After(s, i + n) = After(t, i) + n
  <2> TAKE i \in 1 .. Len(t)
  <2>1. t[i] = s[i + n]
    BY <1>1
  <2> QED
    BY <2>1 DEF After
<1>3. t # <<>> => 1 \in less
  <2> SUFFICES ASSUME t # <<>> PROVE 1 \in less
    OBVIOUS
  <2>1. Len(t) >= 1
    BY <1>1
  <2>2. 1 \in starts
    BY DEF Flags
  <2>3. After(s, 1) <= Len(s)
    BY <1>1, <2>1
  <2>4. n + 1 \in starts
    BY <2>2, <2>3 DEF Flags
  <2> QED
    BY <2>1, <2>4
<1>4. ASSUME NEW i \in less
      PROVE  Known(t[i]) /\ (After(t, i) <= Len(t) => After(t, i) \in less)
  <2>1. Known(s[i + n]) /\ (After(s, i + n) <= Len(s) => After(s, i + n) \in starts)
    BY DEF Flags
  <2>2. After(t, i) \in Nat /\ After(t, i) >= 1
    BY DEF After
  <2> QED
    BY <1>1, <1>2, <2>1, <2>2
<1>5. Flags(t, less)
  BY <1>3, <1>4 DEF Flags
<1> QED
  BY <1>5 DEF FlagRun, t

-----------------------------------------------------------------------------
(* The steps. *)

LEMMA InitFlags == Init => FlagsInv
<1> SUFFICES ASSUME Init PROVE FlagsInv
  OBVIOUS
<1>1. TypeOK
  <2>1. settings \in [http : Texts, unix : Texts, addr : Texts, log : Texts]
    <3>1. Loopback \in Texts /\ "" \in Texts /\ "false" \in Texts /\ "info" \in Texts
      BY LaunchAssumption
    <3> QED
      BY <3>1 DEF Init, Defaults
  <2>2. units \in Seq(Units) /\ args \in Seq(Token) /\ kept \in Seq(Token)
    BY DEF Init
  <2> QED
    BY <2>1, <2>2 DEF Init, TypeOK
<1> QED
  BY <1>1 DEF Init, FlagsInv

LEMMA LauncherSteps ==
    ASSUME FlagsInv, AddUnit \/ Exec
    PROVE  FlagsInv'
<1>1. CASE AddUnit
  <2> PICK u \in Units : units' = Append(units, u) /\ args' = args \o u
    BY <1>1 DEF AddUnit
  <2>1. u \in Seq(Token)
    BY LaunchAssumption
  <2>2. args' \in Seq(Token)
    BY <2>1, ConcatFacts DEF FlagsInv, TypeOK
  <2>3. units' \in Seq(Units)
    BY DEF FlagsInv, TypeOK
  <2> QED
    BY <1>1, <2>2, <2>3 DEF AddUnit, FlagsInv, TypeOK
<1>2. CASE Exec
  <2>1. kept = <<>> /\ kept' = <<>>
    BY <1>2 DEF Exec, FlagsInv
  <2>2. FlagRun(kept') /\ WholeRun(kept')
    BY <2>1, EmptyRun
  <2>3. stage' \in {"filter", "entrypoint"} /\ TypeOK'
    BY <1>2 DEF Exec, FlagsInv, TypeOK
  <2> QED
    BY <2>1, <2>2, <2>3, <1>2 DEF Exec, FlagsInv
<1> QED
  BY <1>1, <1>2

LEMMA EntrySteps ==
    ASSUME FlagsInv, EntryShift \/ EntryHTTP \/ EntryOnHost \/ EntryOther
    PROVE  FlagsInv'
<1>1. CASE EntryShift \/ EntryOther
  BY <1>1 DEF EntryShift, EntryOther, End, FlagsInv, TypeOK
<1>2. CASE EntryHTTP \/ EntryOnHost
  <2>1. Flag("http") \in Token /\ Flag("http-addr") \in Token /\ Word(AllInterfaces) \in Token
    BY LaunchAssumption DEF Flag, Word, Token, Defined
  <2>2. HTTPFlags \o args \in Seq(Token) /\ args \in Seq(Token)
    BY <2>1, ConcatFacts DEF HTTPFlags, FlagsInv, TypeOK
  <2>3. args' \in Seq(Token) /\ stage' = "filter" /\ stage = "entrypoint"
    BY <1>2, <2>2 DEF EntryHTTP, EntryOnHost, StartWorker
  <2>4. UNCHANGED <<command, units, kept, settings, outcome>>
    BY <1>2 DEF EntryHTTP, EntryOnHost, StartWorker
  <2>5. kept' = <<>>
    BY <2>3, <2>4 DEF FlagsInv
  <2>6. FlagRun(kept') /\ WholeRun(kept')
    BY <2>5, EmptyRun
  <2>7. TypeOK'
    BY <2>3, <2>4 DEF FlagsInv, TypeOK
  <2> QED
    BY <2>3, <2>4, <2>5, <2>6, <2>7 DEF FlagsInv
<1> QED
  BY <1>1, <1>2

LEMMA TakeFacts ==
    ASSUME FlagsInv, stage = "filter", args # <<>>, NEW n \in {1, 2}, n <= Len(args),
           NEW out \in Seq(Token), Take(n, out), FlagRun(kept \o out),
           n < Len(args) => WholeRun(kept \o out)
    PROVE  FlagsInv'
<1>1. args' \in Seq(Token) /\ Len(args') = Len(args) - n
  BY SliceFacts DEF Take, FlagsInv, TypeOK
<1>2. kept' = kept \o out /\ kept' \in Seq(Token)
  BY ConcatFacts DEF Take, FlagsInv, TypeOK
<1>3. args' # <<>> => n < Len(args)
  BY <1>1 DEF FlagsInv, TypeOK
<1>4. TypeOK' /\ stage' = "filter"
  BY <1>1, <1>2 DEF Take, FlagsInv, TypeOK
<1> QED
  BY <1>2, <1>3, <1>4 DEF Take, FlagsInv

LEMMA FilterSteps ==
    ASSUME FlagsInv, FilterDrop \/ FilterKeep \/ FilterKeepPair \/ FilterEnd
    PROVE  FlagsInv'
<1> USE DEF FlagsInv
<1>1. CASE FilterDrop
  <2>1. kept \o <<>> = kept
    BY DEF TypeOK
  <2>2. Len(args) >= 1 /\ args # <<>> /\ stage = "filter" /\ Take(1, <<>>)
    BY <1>1 DEF FilterDrop, TypeOK
  <2>3. WholeRun(kept) /\ FlagRun(kept)
    BY <2>2
  <2>4. <<>> \in Seq(Token)
    OBVIOUS
  <2> HIDE DEF FlagsInv
  <2> QED
    BY <2>1, <2>2, <2>3, <2>4, TakeFacts
<1>2. CASE FilterKeep
  <2> DEFINE u == <<args[1]>>
  <2>1. /\ args # <<>> /\ stage = "filter" /\ Take(1, u)
        /\ Known(args[1]) /\ ~TakesNext(args[1])
    BY <1>2 DEF FilterKeep
  <2>2. Len(args) >= 1 /\ args[1] \in Token /\ args \in Seq(Token) /\ kept \in Seq(Token)
    BY <2>1 DEF TypeOK
  <2>3. u \in Seq(Token) /\ Len(u) = 1 /\ u[1] = args[1]
    BY <2>2
  <2>4. WholeRun(kept)
    BY <2>1
  <2>5. After(u, 1) >= Len(u) + 1 /\ (1 < Len(args) => After(u, 1) = Len(u) + 1)
    BY <2>1, <2>2, <2>3 DEF After, TakesNext
  <2> HIDE DEF FlagsInv, u
  <2>6. FlagRun(kept \o u) /\ (1 < Len(args) => WholeRun(kept \o u))
    BY <2>1, <2>2, <2>3, <2>4, <2>5, AppendRun
  <2> QED
    BY <2>1, <2>2, <2>3, <2>6, TakeFacts
<1>3. CASE FilterKeepPair
  <2> DEFINE u == <<args[1], args[2]>>
  <2>1. /\ args # <<>> /\ stage = "filter" /\ Take(2, u)
        /\ Known(args[1]) /\ TakesNext(args[1])
    BY <1>3 DEF FilterKeepPair
  <2>2. /\ Len(args) >= 2 /\ args[1] \in Token /\ args[2] \in Token
        /\ args \in Seq(Token) /\ kept \in Seq(Token)
    BY <2>1 DEF TypeOK, TakesNext
  <2>3. u \in Seq(Token) /\ Len(u) = 2 /\ u[1] = args[1]
    BY <2>2
  <2>4. WholeRun(kept)
    BY <2>1
  <2>5. After(u, 1) = Len(u) + 1
    BY <2>1, <2>3 DEF After, TakesNext
  <2> HIDE DEF FlagsInv, u
  <2>6. Known(u[1]) /\ After(u, 1) >= Len(u) + 1 /\ Len(u) \in {1, 2}
    BY <2>1, <2>3, <2>5
  <2>7. FlagRun(kept \o u) /\ WholeRun(kept \o u)
    BY <2>2, <2>3, <2>4, <2>5, <2>6, AppendRun
  <2> QED
    BY <2>1, <2>2, <2>3, <2>7, TakeFacts
<1>4. CASE FilterEnd
  BY <1>4 DEF FilterEnd, TypeOK
<1> QED
  BY <1>1, <1>2, <1>3, <1>4

LEMMA SetFacts ==
    ASSUME FlagsInv, AtFlag, NEW name \in {"http", "unix", "http-addr", "log-level"},
           NEW v \in Texts, NEW n \in {1, 2}, n <= Len(args), Set(name, v, n),
           After(args, 1) = n + 1
    PROVE  FlagsInv'
<1>1. /\ args \in Seq(Token) /\ args # <<>> /\ FlagRun(args) /\ stage = "parse"
      /\ args' = SubSeq(args, n + 1, Len(args))
  BY DEF FlagsInv, TypeOK, AtFlag, Set
<1>2. args' \in Seq(Token)
  BY <1>1, SliceFacts
<1>3. FlagRun(args')
  BY <1>1, RestRun
<1>4. settings' \in [http : Texts, unix : Texts, addr : Texts, log : Texts]
  <2>1. Field(name) \in {"http", "unix", "addr", "log"}
    BY DEF Field
  <2> QED
    BY <2>1 DEF Set, FlagsInv, TypeOK
<1>5. TypeOK' /\ stage' = "parse"
  BY <1>1, <1>2, <1>4 DEF Set, FlagsInv, TypeOK
<1> QED
  BY <1>3, <1>5 DEF Set, AtFlag, FlagsInv

LEMMA ParseSteps ==
    ASSUME FlagsInv, ParseInline \/ ParseBool \/ ParseValue
    PROVE  FlagsInv'
<1>1. AtFlag /\ args \in Seq(Token) /\ Len(args) >= 1 /\ args[1] \in Token
  <2>1. AtFlag /\ args \in Seq(Token)
    BY DEF ParseInline, ParseBool, ParseValue, FlagsInv, TypeOK
  <2> QED
    BY <2>1 DEF AtFlag
<1>2. /\ args[1].name \in {"http", "unix", "http-addr", "log-level"}
      /\ args[1].value \in Texts
  BY <1>1 DEF AtFlag, Known, Defined, Token
<1>3. CASE ParseInline
  <2>1. After(args, 1) = 2 /\ Set(args[1].name, args[1].value, 1)
    BY <1>3 DEF ParseInline, After
  <2> QED
    BY <1>1, <1>2, <2>1, SetFacts
<1>4. CASE ParseBool
  <2>1. args[1] = Flag("http") /\ Set("http", "true", 1)
    BY <1>4 DEF ParseBool
  <2> DEFINE t == args[1]
  <2>2. t.name = "http"
    <3>1. t = [kind |-> "flag", extra |-> FALSE, name |-> "http", value |-> ""]
      BY <2>1 DEF Flag
    <3> HIDE DEF t
    <3> QED
      BY <3>1
  <2>3. After(args, 1) = 2
    BY <2>2 DEF After, ValueFlags
  <2>4. "true" \in Texts
    BY LaunchAssumption
  <2> QED
    BY <1>1, <2>1, <2>3, <2>4, SetFacts
<1>5. CASE ParseValue
  <2>1. After(args, 1) = 3 /\ Set(args[1].name, Text(args[2]), 2) /\ Len(args) >= 2
    BY <1>1, <1>2, <1>5 DEF ParseValue, After, ValueFlags
  <2>2. args[2] \in Token
    BY <1>1, <2>1
  <2>3. Text(args[2]) \in Texts
    BY <2>2, LaunchAssumption DEF Text, Token
  <2> QED
    BY <1>1, <1>2, <2>1, <2>3, SetFacts
<1> QED
  BY <1>3, <1>4, <1>5

LEMMA NextFlags == FlagsInv /\ [Next]_vars => FlagsInv'
<1> SUFFICES ASSUME FlagsInv, [Next]_vars PROVE FlagsInv'
  OBVIOUS
<1>1. CASE AddUnit \/ Exec
  BY <1>1, LauncherSteps
<1>2. CASE EntryShift \/ EntryHTTP \/ EntryOnHost \/ EntryOther
  BY <1>2, EntrySteps
<1>3. CASE FilterDrop \/ FilterKeep \/ FilterKeepPair \/ FilterEnd
  BY <1>3, FilterSteps
<1>4. CASE ParseInline \/ ParseBool \/ ParseValue
  BY <1>4, ParseSteps
<1>5. CASE ParseError
  BY <1>5 DEF ParseError, End, FlagsInv, TypeOK
<1>6. CASE ParseEnd
  BY <1>6 DEF ParseEnd, FlagsInv, TypeOK
<1>7. CASE ApplyFails \/ Serve
  BY <1>7 DEF ApplyFails, Serve, End, FlagsInv, TypeOK
<1>8. CASE UNCHANGED vars
  BY <1>8 DEF vars, FlagsInv, TypeOK
<1> QED
  BY <1>1, <1>2, <1>3, <1>4, <1>5, <1>6, <1>7, <1>8 DEF Next, Done

-----------------------------------------------------------------------------
(* What a sequence of tokens says of a flag. *)

LEMMA MaxIs ==
    ASSUME NEW S, S \subseteq Int, NEW m \in S, \A j \in S : j <= m
    PROVE  Max(S) = m
<1>1. m \in S /\ \A j \in S : m >= j
  OBVIOUS
<1>2. ASSUME NEW x \in S, \A j \in S : x >= j
      PROVE  x = m
  <2>1. x \in Int /\ m \in Int /\ x >= m /\ m >= x
    BY <1>2
  <2> QED
    BY <2>1
<1> QED
  BY <1>1, <1>2 DEF Max

LEMMA HasLast ==
    ASSUME NEW n \in Nat, NEW S \in SUBSET (1 .. n), S # {}
    PROVE  \E m \in S : \A j \in S : j <= m
<1> DEFINE T == {n - j : j \in S}
<1>1. T \subseteq Nat /\ T # {}
  <2>1. \A j \in S : j \in 1 .. n /\ n - j \in Nat
    OBVIOUS
  <2> QED
    BY <2>1
<1>2. PICK k \in T : \A i \in T : k <= i
  BY <1>1, LeastElement
<1>3. PICK m \in S : k = n - m
  BY <1>2
<1>4. ASSUME NEW j \in S PROVE j <= m
  <2>1. n - j \in T
    OBVIOUS
  <2> QED
    BY <1>2, <1>3, <2>1
<1> QED
  BY <1>4

LEMMA SaidLast ==
    ASSUME NEW s \in Seq(Token), NEW name, NEW d, NEW m \in DOMAIN s, Says(s[m], name),
           \A j \in DOMAIN s : Says(s[j], name) => j <= m
    PROVE  Said(s, name, d) = ValueAt(s, m)
<1> DEFINE said == {i \in DOMAIN s : Says(s[i], name)}
<1>1. said \subseteq Int /\ m \in said /\ \A j \in said : j <= m
  OBVIOUS
<1> HIDE DEF said
<1>2. Max(said) = m /\ said # {}
  BY <1>1, MaxIs
<1> QED
  BY <1>2 DEF Said, said

LEMMA SaidNone ==
    ASSUME NEW s, NEW name, NEW d, \A j \in DOMAIN s : ~Says(s[j], name)
    PROVE  Said(s, name, d) = d
BY DEF Said

LEMMA SaysLast ==
    ASSUME NEW s \in Seq(Token), NEW name, NEW i \in DOMAIN s, Says(s[i], name)
    PROVE  \E m \in DOMAIN s : Says(s[m], name) /\ \A j \in DOMAIN s : Says(s[j], name) => j <= m
<1> DEFINE said == {k \in DOMAIN s : Says(s[k], name)}
<1>1. said \in SUBSET (1 .. Len(s)) /\ said # {} /\ Len(s) \in Nat
  OBVIOUS
<1>2. \E m \in said : \A j \in said : j <= m
  <2> HIDE DEF said
  <2> QED
    BY <1>1, HasLast
<1> QED
  BY <1>2

(* Of two pieces that leave no flag without its value, the second has the  *)
(* last word, and the first where the second is silent.                    *)
LEMMA SaidConcat ==
    ASSUME NEW s \in Seq(Token), NEW t \in Seq(Token), Paired(s), Paired(t)
    PROVE  /\ Paired(s \o t)
           /\ \A name, d : Said(s \o t, name, d) = Said(t, name, Said(s, name, d))
<1> DEFINE w == s \o t
<1>1. /\ w \in Seq(Token) /\ Len(w) = Len(s) + Len(t)
      /\ \A j \in 1 .. Len(s) : w[j] = s[j]
      /\ \A j \in 1 .. Len(t) : w[Len(s) + j] = t[j]
  BY ConcatFacts
<1> HIDE DEF w
<1>2. Len(s) \in Nat /\ Len(t) \in Nat /\ DOMAIN s = 1 .. Len(s) /\ DOMAIN t = 1 .. Len(t)
      /\ DOMAIN w = 1 .. Len(s) + Len(t)
  BY <1>1
<1>3. ASSUME NEW i \in DOMAIN w
      PROVE  i \in DOMAIN s \/ (i - Len(s) \in DOMAIN t /\ i = Len(s) + (i - Len(s)))
  BY <1>2
<1>4. Paired(w)
  <2> SUFFICES ASSUME NEW i \in DOMAIN w, w[i].kind = "flag", w[i].name \in ValueFlags
               PROVE  i < Len(w) /\ w[i + 1].kind = "word"
    BY DEF Paired
  <2>1. CASE i \in DOMAIN s
    <3>1. i < Len(s) /\ s[i + 1].kind = "word"
      BY <1>1, <1>2, <2>1 DEF Paired
    <3> QED
      BY <1>1, <1>2, <2>1, <3>1
  <2>2. CASE i - Len(s) \in DOMAIN t
    <3> DEFINE k == i - Len(s)
    <3>1. w[i] = t[k] /\ k \in DOMAIN t /\ i = Len(s) + k
      BY <1>1, <1>2, <2>2
    <3>2. k < Len(t) /\ t[k + 1].kind = "word"
      BY <3>1 DEF Paired
    <3>3. k + 1 \in 1 .. Len(t) /\ i + 1 = Len(s) + (k + 1)
      BY <1>2, <2>2, <3>2
    <3> QED
      BY <1>1, <1>2, <3>2, <3>3
  <2> QED
    BY <1>3, <2>1, <2>2
<1>5. ASSUME NEW i \in DOMAIN s, s[i].kind # "word" PROVE ValueAt(w, i) = ValueAt(s, i)
  <2>1. w[i] = s[i]
    BY <1>1, <1>2
  <2>2. s[i] \in Token /\ s[i].kind \in {"word", "flag", "inline"}
    <3>1. s[i] \in Token
      OBVIOUS
    <3> QED
      BY <3>1 DEF Token
  <2>3. CASE s[i].kind = "flag" /\ s[i].name \in ValueFlags
    <3>1. i < Len(s)
      BY <2>3 DEF Paired
    <3>2. i + 1 \in 1 .. Len(s)
      BY <1>2, <3>1
    <3> QED
      BY <1>1, <2>1, <3>2 DEF ValueAt
  <2> QED
    BY <1>5, <2>1, <2>2, <2>3 DEF ValueAt
<1>6. ASSUME NEW i \in DOMAIN t, t[i].kind # "word" PROVE ValueAt(w, Len(s) + i) = ValueAt(t, i)
  <2>1. w[Len(s) + i] = t[i]
    BY <1>1, <1>2
  <2>2. t[i] \in Token /\ t[i].kind \in {"word", "flag", "inline"}
    <3>1. t[i] \in Token
      OBVIOUS
    <3> QED
      BY <3>1 DEF Token
  <2>3. CASE t[i].kind = "flag" /\ t[i].name \in ValueFlags
    <3>1. i < Len(t)
      BY <2>3 DEF Paired
    <3>2. i + 1 \in 1 .. Len(t) /\ Len(s) + i + 1 = Len(s) + (i + 1)
      BY <1>2, <3>1
    <3> QED
      BY <1>1, <2>1, <3>2 DEF ValueAt
  <2> QED
    BY <1>6, <2>1, <2>2, <2>3 DEF ValueAt
<1>7. ASSUME NEW name, NEW d
      PROVE  Said(w, name, d) = Said(t, name, Said(s, name, d))
  <2>1. CASE \E i \in DOMAIN t : Says(t[i], name)
    <3>1. PICK m \in DOMAIN t :
             Says(t[m], name) /\ \A j \in DOMAIN t : Says(t[j], name) => j <= m
      BY <2>1, SaysLast
    <3>2. Said(t, name, Said(s, name, d)) = ValueAt(t, m)
      BY <3>1, SaidLast
    <3>3. Len(s) + m \in DOMAIN w /\ Says(w[Len(s) + m], name)
      BY <1>1, <1>2, <3>1
    <3>4. ASSUME NEW j \in DOMAIN w, Says(w[j], name) PROVE j <= Len(s) + m
      <4>1. CASE j \in DOMAIN s
        BY <1>2, <4>1
      <4>2. CASE j - Len(s) \in DOMAIN t /\ j = Len(s) + (j - Len(s))
        <5>1. Says(t[j - Len(s)], name)
          BY <1>1, <1>2, <3>4, <4>2
        <5>2. j - Len(s) <= m
          BY <3>1, <4>2, <5>1
        <5> QED
          BY <1>2, <4>2, <5>2
      <4> QED
        BY <1>3, <4>1, <4>2
    <3>5. Said(w, name, d) = ValueAt(w, Len(s) + m)
      BY <1>1, <3>3, <3>4, SaidLast
    <3>6. t[m].kind # "word"
      BY <3>1 DEF Says
    <3> QED
      BY <1>6, <3>2, <3>5, <3>6
  <2>2. CASE /\ ~\E i \in DOMAIN t : Says(t[i], name)
             /\ \E i \in DOMAIN s : Says(s[i], name)
    <3>1. PICK m \in DOMAIN s :
             Says(s[m], name) /\ \A j \in DOMAIN s : Says(s[j], name) => j <= m
      BY <2>2, SaysLast
    <3>2. Said(s, name, d) = ValueAt(s, m)
      BY <3>1, SaidLast
    <3>3. Said(t, name, Said(s, name, d)) = Said(s, name, d)
      BY <2>2, SaidNone
    <3>4. m \in DOMAIN w /\ Says(w[m], name)
      BY <1>1, <1>2, <3>1
    <3>5. ASSUME NEW j \in DOMAIN w, Says(w[j], name) PROVE j <= m
      <4>1. CASE j \in DOMAIN s
        BY <1>1, <1>2, <3>1, <3>5, <4>1
      <4>2. CASE j - Len(s) \in DOMAIN t /\ j = Len(s) + (j - Len(s))
        BY <1>1, <1>2, <2>2, <3>5, <4>2
      <4> QED
        BY <1>3, <4>1, <4>2
    <3>6. Said(w, name, d) = ValueAt(w, m)
      BY <1>1, <3>4, <3>5, SaidLast
    <3>7. s[m].kind # "word"
      BY <3>1 DEF Says
    <3> QED
      BY <1>5, <3>2, <3>3, <3>6, <3>7
  <2>3. CASE /\ ~\E i \in DOMAIN t : Says(t[i], name)
             /\ ~\E i \in DOMAIN s : Says(s[i], name)
    <3>1. Said(s, name, d) = d /\ Said(t, name, d) = d
      BY <2>3, SaidNone
    <3>2. ASSUME NEW j \in DOMAIN w PROVE ~Says(w[j], name)
      <4>1. CASE j \in DOMAIN s
        BY <1>1, <1>2, <2>3, <4>1
      <4>2. CASE j - Len(s) \in DOMAIN t /\ j = Len(s) + (j - Len(s))
        BY <1>1, <1>2, <2>3, <4>2
      <4> QED
        BY <1>3, <4>1, <4>2
    <3> QED
      BY <3>1, <3>2, SaidNone
  <2> QED
    BY <2>1, <2>2, <2>3
<1> QED
  BY <1>4, <1>7 DEF w

LEMMA Kinds ==
    \A name : Flag(name).kind = "flag" /\ Word(name).kind = "word" /\ Flag(name).name = name
BY DEF Flag, Word

(* A unit that does not lack its value says what the launcher means by it. *)
LEMMA UnitSays ==
    ASSUME NEW u \in Units, ~Alone(u), NEW name \in Defined, NEW d
    PROVE  /\ u \in Seq(Token) /\ Paired(u)
           /\ Said(u, name, d) = IF Says(u[1], name) THEN Value(u) ELSE d
<1>1. u \in Seq(Token) /\ IsUnit(u)
  BY LaunchAssumption
<1>2. CASE Len(u) = 1 /\ Proper(u[1])
  <2>1. DOMAIN u = {1} /\ u[1] \in Token
    BY <1>1, <1>2
  <2>2. u[1].kind \in {"word", "flag", "inline"}
    BY <2>1 DEF Token
  <2>3. Paired(u)
    BY <1>2, <2>1 DEF Paired, Alone
  <2>4. CASE Says(u[1], name)
    <3>1. Said(u, name, d) = ValueAt(u, 1)
      BY <1>1, <2>1, <2>4, SaidLast
    <3>2. ValueAt(u, 1) = Value(u)
      BY <1>2, <2>2, <2>4 DEF ValueAt, Value, Says, Alone
    <3> QED
      BY <1>1, <2>3, <2>4, <3>1, <3>2
  <2>5. CASE ~Says(u[1], name)
    BY <1>1, <2>1, <2>3, <2>5, SaidNone
  <2> QED
    BY <2>4, <2>5
<1>3. CASE /\ Len(u) = 2 /\ Proper(u[1]) /\ u[2] = Word(u[2].name)
           /\ u[1].kind = "flag" /\ u[1].name # "http"
  <2>1. DOMAIN u = {1, 2}
    BY <1>1, <1>3
  <2>2. u[1].kind = "flag" /\ u[2].kind = "word"
    BY <1>3, Kinds
  <2>3. Paired(u)
    BY <1>3, <2>1, <2>2 DEF Paired
  <2>4. ~Says(u[2], name)
    BY <2>2 DEF Says
  <2>5. CASE Says(u[1], name)
    <3>1. Said(u, name, d) = ValueAt(u, 1)
      BY <1>1, <2>1, <2>4, <2>5, SaidLast
    <3>2. u[1].name \in ValueFlags
      BY <1>3, <2>5 DEF Says, Defined, ValueFlags
    <3>3. ValueAt(u, 1) = Value(u)
      BY <1>3, <2>2, <3>2 DEF ValueAt, Value
    <3> QED
      BY <1>1, <2>3, <2>5, <3>1, <3>3
  <2>6. CASE ~Says(u[1], name)
    BY <1>1, <2>1, <2>3, <2>4, <2>6, SaidNone
  <2> QED
    BY <2>5, <2>6
<1> QED
  BY <1>1, <1>2, <1>3 DEF IsUnit

LEMMA GivenAppend ==
    ASSUME NEW us \in Seq(Units), NEW u \in Units, NEW name, NEW d
    PROVE  Given(Append(us, u), name, d) =
             IF Says(u[1], name) THEN Value(u) ELSE Given(us, name, d)
<1> DEFINE ws == Append(us, u)
           said == {i \in DOMAIN us : Says(us[i][1], name)}
           more == {i \in DOMAIN ws : Says(ws[i][1], name)}
<1>1. /\ Len(us) \in Nat /\ DOMAIN us = 1 .. Len(us) /\ DOMAIN ws = 1 .. Len(us) + 1
      /\ ws[Len(us) + 1] = u /\ \A i \in 1 .. Len(us) : ws[i] = us[i]
  OBVIOUS
<1> HIDE DEF ws
<1>2. CASE Says(u[1], name)
  <2>1. Len(us) + 1 \in more /\ more \subseteq Int /\ \A j \in more : j <= Len(us) + 1
    BY <1>1, <1>2
  <2> HIDE DEF more
  <2>2. Max(more) = Len(us) + 1 /\ more # {}
    BY <2>1, MaxIs
  <2> QED
    BY <1>1, <1>2, <2>2 DEF Given, ws, more
<1>3. CASE ~Says(u[1], name)
  <2>1. \A i \in DOMAIN ws : i \in DOMAIN us \/ i = Len(us) + 1
    BY <1>1
  <2>2. more = said
    BY <1>1, <1>3, <2>1
  <2>3. CASE said = {}
    BY <1>3, <2>2, <2>3 DEF Given, ws
  <2>4. CASE said # {}
    <3>1. said \in SUBSET (1 .. Len(us))
      BY <1>1
    <3> HIDE DEF said, more
    <3>2. PICK m \in said : \A j \in said : j <= m
      BY <1>1, <2>4, <3>1, HasLast
    <3>3. Max(said) = m
      <4>1. said \subseteq Int
        BY <1>1, <3>1
      <4> QED
        BY <3>2, <4>1, MaxIs
    <3>4. Given(us, name, d) = Value(us[m]) /\ Given(ws, name, d) = Value(ws[m])
      BY <2>2, <2>4, <3>3 DEF Given, said, more
    <3> QED
      BY <1>1, <1>3, <3>1, <3>2, <3>4 DEF ws
  <2> QED
    BY <2>3, <2>4
<1> QED
  BY <1>2, <1>3

-----------------------------------------------------------------------------
(* Where the launcher's own flags are well-formed, so are those that the   *)
(* filter and the parser have before them.                                 *)
Spelt == ~Misspelt => WellSpelt(args) /\ WellSpelt(kept)

LEMMA SpeltConcat ==
    ASSUME NEW s \in Seq(Token), NEW t \in Seq(Token), WellSpelt(s), WellSpelt(t)
    PROVE  WellSpelt(s \o t)
<1> DEFINE w == s \o t
<1>1. /\ w \in Seq(Token) /\ Len(w) = Len(s) + Len(t)
      /\ \A j \in 1 .. Len(s) : w[j] = s[j]
      /\ \A j \in 1 .. Len(t) : w[Len(s) + j] = t[j]
  BY ConcatFacts
<1> HIDE DEF w
<1>2. ASSUME NEW i \in DOMAIN w PROVE ~Malformed(w[i])
  <2>1. i \in 1 .. Len(s) + Len(t) /\ Len(s) \in Nat /\ Len(t) \in Nat
    BY <1>1
  <2>2. CASE i \in 1 .. Len(s)
    BY <1>1, <2>2 DEF WellSpelt
  <2>3. CASE i \notin 1 .. Len(s)
    <3> DEFINE k == i - Len(s)
    <3>1. k \in 1 .. Len(t) /\ i = Len(s) + k
      BY <2>1, <2>3
    <3>2. w[i] = t[k]
      BY <1>1, <3>1
    <3> QED
      BY <3>1, <3>2 DEF WellSpelt
  <2> QED
    BY <2>2, <2>3
<1> QED
  BY <1>2 DEF WellSpelt, w

LEMMA SpeltRest ==
    ASSUME NEW s \in Seq(Token), NEW n \in {1, 2}, n <= Len(s), WellSpelt(s)
    PROVE  WellSpelt(SubSeq(s, n + 1, Len(s)))
<1> DEFINE t == SubSeq(s, n + 1, Len(s))
<1>1. t \in Seq(Token) /\ Len(t) = Len(s) - n /\ \A j \in 1 .. Len(s) - n : t[j] = s[n + j]
  BY SliceFacts
<1> HIDE DEF t
<1>2. ASSUME NEW i \in DOMAIN t PROVE ~Malformed(t[i])
  <2>1. i \in 1 .. Len(s) - n /\ n + i \in DOMAIN s /\ t[i] = s[n + i]
    BY <1>1
  <2> QED
    BY <2>1 DEF WellSpelt
<1> QED
  BY <1>2 DEF WellSpelt, t

LEMMA UnitSpelt ==
    ASSUME NEW u \in Units, ~Malformed(u[1])
    PROVE  u \in Seq(Token) /\ WellSpelt(u)
<1>1. u \in Seq(Token) /\ IsUnit(u)
  BY LaunchAssumption
<1>2. CASE Len(u) = 1
  <2>1. DOMAIN u = {1}
    BY <1>1, <1>2
  <2> QED
    BY <1>1, <2>1 DEF WellSpelt
<1>3. CASE Len(u) = 2 /\ u[2] = Word(u[2].name)
  <2>1. DOMAIN u = {1, 2} /\ u[2].kind = "word"
    BY <1>1, <1>3, Kinds
  <2> QED
    BY <1>1, <2>1 DEF WellSpelt, Malformed, Known
<1> QED
  BY <1>1, <1>2, <1>3 DEF IsUnit

LEMMA SpeltSteps ==
    ASSUME FlagsInv, Spelt, [Next]_vars
    PROVE  Spelt'
<1> SUFFICES ASSUME ~Misspelt' PROVE WellSpelt(args') /\ WellSpelt(kept')
  BY DEF Spelt, WellSpelt
<1>0. args \in Seq(Token) /\ kept \in Seq(Token) /\ units \in Seq(Units)
  BY DEF FlagsInv, TypeOK
<1>a. WellSpelt(<<>>)
  BY DEF WellSpelt
<1>1. CASE AddUnit
  <2>1. PICK u \in Units : units' = Append(units, u) /\ args' = args \o u /\ kept' = kept
    BY <1>1 DEF AddUnit
  <2>2. /\ \A i \in DOMAIN units : i \in DOMAIN units' /\ units'[i] = units[i]
        /\ Len(units) + 1 \in DOMAIN units' /\ units'[Len(units) + 1] = u
    BY <1>0, <2>1
  <2>3. ~Misspelt /\ ~Malformed(u[1])
    BY <2>2 DEF Misspelt
  <2> QED
    BY <1>0, <2>1, <2>3, UnitSpelt, SpeltConcat DEF Spelt
<1>2. ASSUME UNCHANGED units PROVE WellSpelt(args) /\ WellSpelt(kept)
  <2>1. ~Misspelt
    BY <1>2 DEF Misspelt
  <2> QED
    BY <2>1 DEF Spelt
<1>3. CASE EntryHTTP
  <2>1. /\ Flag("http") \in Token /\ Flag("http-addr") \in Token /\ Word(AllInterfaces) \in Token
        /\ ~Malformed(Flag("http")) /\ ~Malformed(Flag("http-addr"))
        /\ ~Malformed(Word(AllInterfaces))
    BY LaunchAssumption DEF Flag, Word, Token, Defined, Malformed, WellFormed, Known
  <2>2. HTTPFlags \in Seq(Token) /\ WellSpelt(HTTPFlags)
    BY <2>1 DEF HTTPFlags, WellSpelt
  <2>3. args' = HTTPFlags \o args /\ kept' = kept /\ UNCHANGED units
    BY <1>3 DEF EntryHTTP, StartWorker
  <2> QED
    BY <1>0, <1>2, <2>2, <2>3, SpeltConcat
<1>4. CASE FilterDrop \/ FilterKeep \/ FilterKeepPair
  <2>0. args # <<>> /\ UNCHANGED units
    BY <1>4 DEF FilterDrop, FilterKeep, FilterKeepPair, Take
  <2>1. 1 \in DOMAIN args /\ 1 <= Len(args) /\ args[1] \in Token
    BY <1>0, <2>0
  <2>2. PICK n \in {1, 2}, out \in {<<>>, <<args[1]>>, <<args[1], args[2]>>} :
           /\ n <= Len(args) /\ Take(n, out)
           /\ out = <<args[1], args[2]>> => n = 2
    <3>1. CASE FilterDrop
      BY <2>1, <3>1 DEF FilterDrop
    <3>2. CASE FilterKeep
      BY <2>1, <3>2 DEF FilterKeep
    <3>3. CASE FilterKeepPair
      <4>1. Len(args) \in Nat /\ Len(args) > 1
        BY <1>0, <3>3 DEF FilterKeepPair, TakesNext
      <4> QED
        BY <3>3, <4>1 DEF FilterKeepPair
    <3> QED
      BY <1>4, <3>1, <3>2, <3>3
  <2>3. out \in Seq(Token) /\ WellSpelt(out)
    <3>1. CASE out = <<>>
      BY <1>a, <3>1
    <3>2. CASE out = <<args[1]>>
      BY <1>2, <2>0, <2>1, <3>2 DEF WellSpelt
    <3>3. CASE out = <<args[1], args[2]>>
      <4>1. 2 \in DOMAIN args /\ args[2] \in Token
        BY <1>0, <2>2, <3>3
      <4> QED
        BY <1>2, <2>0, <2>1, <3>3, <4>1 DEF WellSpelt
    <3> QED
      BY <2>2, <3>1, <3>2, <3>3
  <2>4. WellSpelt(kept \o out)
    BY <1>0, <1>2, <2>0, <2>3, SpeltConcat
  <2>5. WellSpelt(SubSeq(args, n + 1, Len(args)))
    BY <1>0, <1>2, <2>0, <2>2, SpeltRest
  <2> QED
    BY <2>2, <2>4, <2>5 DEF Take
<1>5. CASE ParseInline \/ ParseBool \/ ParseValue
  <2>0. args # <<>> /\ UNCHANGED <<units, kept>>
    BY <1>5 DEF ParseInline, ParseBool, ParseValue, AtFlag, Set
  <2>1. PICK n \in {1, 2} : n <= Len(args) /\ args' = SubSeq(args, n + 1, Len(args))
    <3>1. Len(args) \in Nat /\ Len(args) >= 1
      BY <1>0, <2>0
    <3> QED
      BY <1>5, <3>1 DEF ParseInline, ParseBool, ParseValue, Set
  <2> QED
    BY <1>0, <1>2, <2>0, <2>1, SpeltRest
<1>6. CASE FilterEnd
  BY <1>2, <1>6 DEF FilterEnd
<1>7. CASE \/ Exec \/ EntryShift \/ EntryOnHost \/ EntryOther
           \/ ParseError \/ ParseEnd \/ ApplyFails \/ Serve \/ UNCHANGED vars
  BY <1>2, <1>7 DEF Exec, EntryShift, EntryOnHost, EntryOther, StartWorker, End, ParseError,
                    ParseEnd, ApplyFails, Serve, vars
<1> QED
  BY <1>1, <1>3, <1>4, <1>5, <1>6, <1>7 DEF Next, Done

-----------------------------------------------------------------------------
(* The steps keep what is meant. *)

LEMMA InitMeaning == Init => LaunchInv
<1> SUFFICES ASSUME Init PROVE LaunchInv
  OBVIOUS
<1>1. FlagsInv
  BY InitFlags
<1>2. Paired(args)
  BY DEF Init, Paired
<1>3. ASSUME NEW name \in Defined PROVE Said(args, name, Preset(name)) = Meant(name)
  <2>1. args = <<>> /\ units = <<>>
    BY DEF Init
  <2>2. Said(args, name, Preset(name)) = Preset(name)
    BY <2>1, SaidNone
  <2>3. Given(units, name, Preset(name)) = Preset(name)
    BY <2>1 DEF Given
  <2> QED
    BY <2>2, <2>3 DEF Meant
<1>4. MeaningKept
  BY <1>2, <1>3 DEF Init, MeaningKept
<1>5. Spelt
  BY DEF Init, Spelt, WellSpelt
<1> QED
  BY <1>1, <1>4, <1>5 DEF Init, LaunchInv, Spelt

LEMMA AddMeaning ==
    ASSUME LaunchInv, AddUnit
    PROVE  LaunchInv'
<1>1. FlagsInv'
  BY LauncherSteps DEF LaunchInv
<1>2. PICK u \in Units : units' = Append(units, u) /\ args' = args \o u
  BY DEF AddUnit
<1>3. /\ stage = "launcher" /\ stage' = "launcher" /\ outcome' = "none"
      /\ command' = command /\ units \in Seq(Units) /\ args \in Seq(Token)
  BY DEF AddUnit, LaunchInv, FlagsInv, TypeOK
<1>s. Spelt'
  BY SpeltSteps DEF LaunchInv, Spelt, Next
<1> SUFFICES ASSUME ~Dangling' PROVE MeaningKept'
  BY <1>1, <1>3, <1>s DEF LaunchInv, Spelt
<1>4. ~Dangling /\ ~Alone(u)
  <2>1. \A i \in DOMAIN units' : ~Alone(units'[i])
    BY DEF Dangling
  <2>2. /\ \A i \in DOMAIN units : i \in DOMAIN units' /\ units'[i] = units[i]
        /\ Len(units) + 1 \in DOMAIN units' /\ units'[Len(units) + 1] = u
    BY <1>2, <1>3
  <2> QED
    BY <2>1, <2>2 DEF Dangling
<1>5. Paired(args) /\ \A name \in Defined : Said(args, name, Preset(name)) = Meant(name)
  BY <1>3, <1>4 DEF LaunchInv, MeaningKept
<1>6. "http" \in Defined
  BY DEF Defined
<1>7. u \in Seq(Token) /\ Paired(u)
  BY <1>4, <1>6, UnitSays
<1>8. Paired(args')
  BY <1>2, <1>3, <1>5, <1>7, SaidConcat
<1>9. ASSUME NEW name \in Defined PROVE Said(args', name, Preset(name)') = Meant(name)'
  <2>1. Preset(name)' = Preset(name)
    BY <1>3 DEF Preset
  <2> DEFINE p == Preset(name)
  <2>2. p = Preset(name)
    OBVIOUS
  <2> HIDE DEF p
  <2>3. Said(args \o u, name, p) = Said(u, name, Said(args, name, p))
    BY <1>3, <1>5, <1>7, SaidConcat
  <2>4. Said(u, name, Said(args, name, p)) =
          IF Says(u[1], name) THEN Value(u) ELSE Said(args, name, p)
    BY <1>4, UnitSays
  <2>5. Given(Append(units, u), name, p) =
          IF Says(u[1], name) THEN Value(u) ELSE Given(units, name, p)
    BY <1>3, GivenAppend
  <2>6. Said(args, name, p) = Given(units, name, p)
    BY <1>5, <2>2 DEF Meant
  <2>7. Meant(name)' = Given(units', name, p)
    BY <2>1, <2>2 DEF Meant
  <2> QED
    BY <1>2, <2>1, <2>2, <2>3, <2>4, <2>5, <2>6, <2>7
<1> QED
  BY <1>3, <1>8, <1>9 DEF MeaningKept

(* What a flag says, with its value or without one of its own. *)
LEMMA OneSays ==
    ASSUME NEW t \in Token, ~(t.kind = "flag" /\ t.name \in ValueFlags), NEW name \in Defined
    PROVE  /\ <<t>> \in Seq(Token) /\ Paired(<<t>>)
           /\ \A d : Said(<<t>>, name, d) =
                IF Says(t, name) THEN IF t.kind = "inline" THEN t.value ELSE "true" ELSE d
<1> DEFINE s == <<t>>
<1>1. s \in Seq(Token) /\ DOMAIN s = {1} /\ s[1] = t
  OBVIOUS
<1> HIDE DEF s
<1>2. Paired(s)
  BY <1>1 DEF Paired
<1>3. ASSUME NEW d, Says(t, name)
      PROVE  Said(s, name, d) = IF t.kind = "inline" THEN t.value ELSE "true"
  <2>1. Said(s, name, d) = ValueAt(s, 1)
    BY <1>1, <1>3, SaidLast
  <2>2. t.kind \in {"word", "flag", "inline"} /\ t.kind # "word"
    BY <1>3 DEF Token, Says
  <2> QED
    BY <1>1, <2>1, <2>2 DEF ValueAt
<1>4. ASSUME NEW d, ~Says(t, name) PROVE Said(s, name, d) = d
  BY <1>1, <1>4, SaidNone
<1> QED
  BY <1>1, <1>2, <1>3, <1>4 DEF s

LEMMA PairSays ==
    ASSUME NEW t \in Token, NEW v \in Token, t.kind = "flag", t.name \in ValueFlags,
           v.kind = "word", NEW name \in Defined
    PROVE  /\ <<t, v>> \in Seq(Token) /\ Paired(<<t, v>>)
           /\ \A d : Said(<<t, v>>, name, d) = IF t.name = name THEN v.name ELSE d
<1> DEFINE s == <<t, v>>
<1>1. s \in Seq(Token) /\ DOMAIN s = {1, 2} /\ Len(s) = 2 /\ s[1] = t /\ s[2] = v
  OBVIOUS
<1> HIDE DEF s
<1>2. Paired(s)
  BY <1>1 DEF Paired
<1>3. ~Says(s[2], name) /\ (Says(s[1], name) <=> t.name = name)
  BY <1>1 DEF Says
<1>4. ASSUME NEW d, t.name = name PROVE Said(s, name, d) = v.name
  <2>1. Said(s, name, d) = ValueAt(s, 1)
    BY <1>1, <1>3, <1>4, SaidLast
  <2> QED
    BY <1>1, <2>1 DEF ValueAt
<1>5. ASSUME NEW d, t.name # name PROVE Said(s, name, d) = d
  BY <1>1, <1>3, <1>5, SaidNone
<1> QED
  BY <1>1, <1>2, <1>4, <1>5 DEF s

(* Tokens taken off the front leave a rest that lacks no value, and the    *)
(* rest has the last word.                                                 *)
LEMMA SplitSays ==
    ASSUME NEW s \in Seq(Token), Paired(s), NEW n \in {1, 2}, n <= Len(s),
           NEW front \in Seq(Token), Paired(front), Len(front) = n,
           \A i \in 1 .. n : front[i] = s[i],
           NEW rest \in Seq(Token), Len(rest) = Len(s) - n,
           \A j \in 1 .. Len(s) - n : rest[j] = s[n + j]
    PROVE  /\ Paired(rest)
           /\ \A name, d : Said(s, name, d) = Said(rest, name, Said(front, name, d))
<1>1. rest \in Seq(Token) /\ Len(rest) = Len(s) - n /\ \A j \in 1 .. Len(s) - n : rest[j] = s[n + j]
  OBVIOUS
<1>2. Paired(rest)
  <2> SUFFICES ASSUME NEW i \in DOMAIN rest, rest[i].kind = "flag", rest[i].name \in ValueFlags
               PROVE  i < Len(rest) /\ rest[i + 1].kind = "word"
    BY DEF Paired
  <2>1. i \in 1 .. Len(s) - n /\ rest[i] = s[n + i] /\ n + i \in DOMAIN s
    BY <1>1
  <2>2. n + i < Len(s) /\ s[n + i + 1].kind = "word"
    BY <2>1 DEF Paired
  <2>3. i + 1 \in 1 .. Len(s) - n /\ n + i + 1 = n + (i + 1)
    BY <2>1, <2>2
  <2> QED
    BY <1>1, <2>2, <2>3
<1>3. s = front \o rest
  <2> DEFINE w == front \o rest
  <2>1. /\ w \in Seq(Token) /\ Len(w) = Len(s)
        /\ \A j \in 1 .. n : w[j] = front[j]
        /\ \A j \in 1 .. Len(s) - n : w[n + j] = rest[j]
    <3>1. Len(s) \in Nat
      OBVIOUS
    <3> QED
      BY <1>1, <3>1, ConcatFacts
  <2> HIDE DEF w
  <2>2. ASSUME NEW i \in 1 .. Len(s) PROVE w[i] = s[i]
    <3>1. CASE i \in 1 .. n
      BY <2>1, <3>1
    <3>2. CASE i \notin 1 .. n
      <4>1. PICK k \in 1 .. Len(s) - n : i = n + k
        <5>1. i - n \in 1 .. Len(s) - n /\ i = n + (i - n)
          BY <3>2
        <5> QED
          BY <5>1
      <4>2. w[n + k] = rest[k] /\ rest[k] = s[n + k]
        BY <1>1, <2>1
      <4> QED
        BY <4>1, <4>2
    <3> QED
      BY <3>1, <3>2
  <2>3. w = s
    BY <2>1, <2>2, SeqEqual
  <2> QED
    BY <2>3 DEF w
<1>4. \A name, d : Said(s, name, d) = Said(rest, name, Said(front, name, d))
  BY <1>1, <1>2, <1>3, SaidConcat
<1> QED
  BY <1>1, <1>2, <1>4

(* All steps but the launcher's leave what is meant as it is. *)
LEMMA MeantStays ==
    ASSUME UNCHANGED <<command, units>>
    PROVE  /\ Dangling' <=> Dangling
           /\ \A name : Meant(name)' = Meant(name) /\ Preset(name)' = Preset(name)
BY DEF Dangling, Meant, Preset

LEMMA ExecMeaning ==
    ASSUME LaunchInv, Exec
    PROVE  LaunchInv'
<1>1. FlagsInv'
  BY LauncherSteps DEF LaunchInv
<1>2. UNCHANGED <<command, units, args, kept, settings, outcome>> /\ outcome = "none"
  BY DEF Exec, LaunchInv, FlagsInv
<1>s. Spelt'
  BY SpeltSteps DEF LaunchInv, Spelt, Next
<1> SUFFICES ASSUME ~Dangling' PROVE MeaningKept'
  BY <1>1, <1>2, <1>s DEF LaunchInv, Spelt
<1>3. /\ ~Dangling /\ args \in Seq(Token) /\ kept = <<>> /\ Paired(args)
      /\ \A name \in Defined : Said(args, name, Preset(name)) = Meant(name)
  BY <1>2, MeantStays DEF Exec, LaunchInv, FlagsInv, TypeOK, MeaningKept
<1>4. CASE command # "direct"
  BY <1>2, <1>3, <1>4, MeantStays DEF Exec, MeaningKept
<1>5. CASE command = "direct"
  <2>1. Paired(kept) /\ kept \o args = args
    BY <1>3 DEF Paired
  <2>2. \A name \in Defined : Preset(name) = Defaults[Field(name)]
    BY <1>5 DEF Preset, Defaults, Field, Defined
  <2>3. stage' = "filter"
    BY <1>5 DEF Exec
  <2> QED
    BY <1>2, <1>3, <2>1, <2>2, <2>3, MeantStays DEF MeaningKept
<1> QED
  BY <1>4, <1>5

(* The entrypoint's own flags say what it presets. *)
LEMMA HTTPFlagsSay ==
    /\ HTTPFlags \in Seq(Token) /\ Paired(HTTPFlags)
    /\ command = "http" =>
         \A name \in Defined : Said(HTTPFlags, name, Defaults[Field(name)]) = Preset(name)
<1> DEFINE a == Flag("http")
           b == Flag("http-addr")
           c == Word(AllInterfaces)
<1>1. a \in Token /\ b \in Token /\ c \in Token
  BY LaunchAssumption DEF Flag, Word, Token, Defined
<1>2. /\ a.kind = "flag" /\ a.name = "http" /\ b.kind = "flag" /\ b.name = "http-addr"
      /\ c.kind = "word" /\ c.name = AllInterfaces
  BY DEF Flag, Word
<1> HIDE DEF a, b, c
<1>3. /\ HTTPFlags \in Seq(Token) /\ Len(HTTPFlags) = 3 /\ DOMAIN HTTPFlags = {1, 2, 3}
      /\ HTTPFlags[1] = a /\ HTTPFlags[2] = b /\ HTTPFlags[3] = c
  BY <1>1 DEF HTTPFlags, a, b, c
<1>4. Paired(HTTPFlags)
  BY <1>2, <1>3 DEF Paired, ValueFlags
<1>5. ASSUME command = "http", NEW name \in Defined
      PROVE  Said(HTTPFlags, name, Defaults[Field(name)]) = Preset(name)
  <2> DEFINE d == Defaults[Field(name)]
  <2> HIDE DEF d
  <2>1. CASE name = "http"
    <3>0. /\ 1 \in DOMAIN HTTPFlags /\ Says(HTTPFlags[1], name)
          /\ \A j \in DOMAIN HTTPFlags : Says(HTTPFlags[j], name) => j <= 1
      BY <1>2, <1>3, <2>1 DEF Says
    <3>1. Said(HTTPFlags, name, d) = ValueAt(HTTPFlags, 1)
      BY <1>3, <3>0, SaidLast
    <3> QED
      BY <1>2, <1>3, <1>5, <2>1, <3>1 DEF ValueAt, ValueFlags, Preset, d
  <2>2. CASE name = "http-addr"
    <3>1. Said(HTTPFlags, name, d) = ValueAt(HTTPFlags, 2)
      BY <1>2, <1>3, <2>2, SaidLast DEF Says
    <3> QED
      BY <1>2, <1>3, <1>5, <2>2, <3>1 DEF ValueAt, ValueFlags, Preset, d
  <2>3. CASE name \in {"unix", "log-level"}
    <3>1. Said(HTTPFlags, name, d) = d
      BY <1>2, <1>3, <2>3, SaidNone DEF Says
    <3> QED
      BY <2>3, <3>1 DEF Defaults, Field, Preset, d
  <2> QED
    BY <2>1, <2>2, <2>3 DEF Defined
<1> QED
  BY <1>3, <1>4, <1>5

LEMMA EntryMeaning ==
    ASSUME LaunchInv, EntryShift \/ EntryHTTP \/ EntryOnHost \/ EntryOther
    PROVE  LaunchInv'
<1>1. FlagsInv'
  BY EntrySteps DEF LaunchInv
<1>2. UNCHANGED <<command, units, kept, settings>> /\ stage = "entrypoint" /\ outcome = "none"
  BY DEF EntryShift, EntryHTTP, EntryOnHost, EntryOther, End, StartWorker, LaunchInv, FlagsInv
<1>s. Spelt'
  BY SpeltSteps DEF LaunchInv, Spelt, Next
<1> SUFFICES ASSUME ~Dangling'
             PROVE  MeaningKept' /\ outcome' \in {"none", "exec", "shell"}
  BY <1>1, <1>s DEF LaunchInv, Spelt
<1>3. /\ ~Dangling /\ args \in Seq(Token) /\ kept = <<>> /\ Paired(args)
      /\ \A name \in Defined : Said(args, name, Preset(name)) = Meant(name)
  BY <1>2, MeantStays DEF LaunchInv, FlagsInv, TypeOK, MeaningKept
<1>4. CASE EntryShift \/ EntryOther
  BY <1>4 DEF EntryShift, EntryOther, End, MeaningKept
<1>5. Paired(kept)
  BY <1>3 DEF Paired
<1>6. CASE EntryHTTP
  <2>1. /\ args' = HTTPFlags \o args /\ stage' = "filter" /\ outcome' = "none"
        /\ command = "http"
    BY <1>2, <1>6 DEF EntryHTTP, StartWorker
  <2>2. Paired(args') /\ args' \in Seq(Token)
    BY <1>3, <2>1, HTTPFlagsSay, SaidConcat, ConcatFacts
  <2>3. kept' \o args' = args'
    BY <1>2, <1>3, <2>2
  <2>4. ASSUME NEW name \in Defined PROVE Said(args', name, Defaults[Field(name)]) = Meant(name)
    <3>1. Said(HTTPFlags \o args, name, Defaults[Field(name)])
            = Said(args, name, Said(HTTPFlags, name, Defaults[Field(name)]))
      BY <1>3, HTTPFlagsSay, SaidConcat
    <3>2. Said(HTTPFlags, name, Defaults[Field(name)]) = Preset(name)
      BY <2>1, HTTPFlagsSay
    <3> QED
      BY <1>3, <2>1, <3>1, <3>2
  <2> QED
    BY <1>2, <1>5, <2>1, <2>2, <2>3, <2>4, MeantStays DEF MeaningKept
<1>7. CASE EntryOnHost
  <2>1. args' = args /\ stage' = "filter" /\ outcome' = "none" /\ command # "http"
    BY <1>2, <1>7 DEF EntryOnHost, StartWorker
  <2>2. kept' \o args' = args
    BY <1>2, <1>3, <2>1
  <2>3. \A name \in Defined : Preset(name) = Defaults[Field(name)]
    BY <2>1 DEF Preset, Defaults, Field, Defined
  <2> QED
    BY <1>2, <1>3, <1>5, <2>1, <2>2, <2>3, MeantStays DEF MeaningKept
<1> QED
  BY <1>4, <1>6, <1>7

(* The filter keeps n tokens, or drops one that says nothing.              *)
LEMMA TakeMeaning ==
    ASSUME LaunchInv, stage = "filter", args # <<>>, NEW n \in {1, 2}, n <= Len(args),
           NEW front \in Seq(Token), Len(front) = n, \A i \in 1 .. n : front[i] = args[i],
           Paired(front), NEW out \in Seq(Token), Paired(out), Take(n, out),
           \A name \in Defined : \A d : Said(out, name, d) = Said(front, name, d)
    PROVE  ~Dangling' => MeaningKept'
<1> SUFFICES ASSUME ~Dangling' PROVE MeaningKept'
  OBVIOUS
<1>1. /\ UNCHANGED <<command, units, stage, settings, outcome>>
      /\ args' = SubSeq(args, n + 1, Len(args)) /\ kept' = kept \o out /\ outcome = "none"
  BY DEF Take, LaunchInv, FlagsInv
<1>2. /\ ~Dangling /\ args \in Seq(Token) /\ kept \in Seq(Token) /\ Paired(args) /\ Paired(kept)
      /\ \A name \in Defined : Said(kept \o args, name, Defaults[Field(name)]) = Meant(name)
  BY <1>1, MeantStays DEF LaunchInv, FlagsInv, TypeOK, MeaningKept
<1>3. /\ args' \in Seq(Token) /\ Paired(args')
      /\ \A name, d : Said(args, name, d) = Said(args', name, Said(front, name, d))
  <2> DEFINE rest == SubSeq(args, n + 1, Len(args))
  <2> HIDE DEF rest
  <2>1. /\ rest \in Seq(Token) /\ Paired(rest)
        /\ \A name, d : Said(args, name, d) = Said(rest, name, Said(front, name, d))
    <3>1. /\ rest \in Seq(Token) /\ Len(rest) = Len(args) - n
          /\ \A j \in 1 .. Len(args) - n : rest[j] = args[n + j]
      BY <1>2, SliceFacts DEF rest
    <3>2. args \in Seq(Token) /\ Paired(args)
      BY <1>2
    <3> QED
      BY <3>1, <3>2, SplitSays, Zenon
  <2> QED
    BY <1>1, <2>1 DEF rest
<1>4. /\ Paired(kept') /\ kept' \in Seq(Token)
      /\ \A name, d : Said(kept', name, d) = Said(out, name, Said(kept, name, d))
  BY <1>1, <1>2, SaidConcat, ConcatFacts
<1>5. ASSUME NEW name \in Defined
      PROVE  Said(kept' \o args', name, Defaults[Field(name)]) = Meant(name)
  <2> DEFINE d == Defaults[Field(name)]
  <2>1. Said(kept' \o args', name, d) = Said(args', name, Said(kept', name, d))
    BY <1>3, <1>4, SaidConcat
  <2>2. Said(kept \o args, name, d) = Said(args, name, Said(kept, name, d))
    BY <1>2, SaidConcat
  <2> HIDE DEF d
  <2>3. Said(kept', name, d) = Said(front, name, Said(kept, name, d))
    BY <1>4
  <2> QED
    BY <1>2, <1>3, <2>1, <2>2, <2>3 DEF d
<1> QED
  BY <1>1, <1>3, <1>4, <1>5, MeantStays DEF MeaningKept

LEMMA FilterMeaning ==
    ASSUME LaunchInv, FilterDrop \/ FilterKeep \/ FilterKeepPair \/ FilterEnd
    PROVE  LaunchInv'
<1>1. FlagsInv'
  BY FilterSteps DEF LaunchInv
<1>2. UNCHANGED <<command, units, settings, outcome>> /\ stage = "filter" /\ outcome = "none"
  BY DEF FilterDrop, FilterKeep, FilterKeepPair, FilterEnd, Take, LaunchInv, FlagsInv
<1>s. Spelt'
  BY SpeltSteps DEF LaunchInv, Spelt, Next
<1> SUFFICES ASSUME ~Dangling' PROVE MeaningKept'
  BY <1>1, <1>2, <1>s DEF LaunchInv, Spelt
<1>3. /\ ~Dangling /\ args \in Seq(Token) /\ kept \in Seq(Token) /\ Paired(args) /\ Paired(kept)
      /\ \A name \in Defined : Said(kept \o args, name, Defaults[Field(name)]) = Meant(name)
      /\ settings = Defaults
  BY <1>2, MeantStays DEF LaunchInv, FlagsInv, TypeOK, MeaningKept
<1>4. CASE FilterEnd
  <2>1. args = <<>> /\ args' = kept /\ kept \o args = kept /\ stage' = "parse"
    BY <1>3, <1>4 DEF FilterEnd
  <2> QED
    BY <1>2, <1>3, <2>1, MeantStays DEF MeaningKept
<1>5. CASE FilterDrop \/ FilterKeep
  <2> DEFINE t == args[1]
  <2>1. args # <<>> /\ 1 <= Len(args) /\ t \in Token
    <3>1. args # <<>>
      BY <1>5 DEF FilterDrop, FilterKeep
    <3> QED
      BY <1>3, <3>1
  <2>2. ~(t.kind = "flag" /\ t.name \in ValueFlags)
    <3>1. CASE FilterDrop
      <4>1. ~Known(t)
        BY <3>1 DEF FilterDrop
      <4> QED
        BY <4>1 DEF Known, Defined, ValueFlags
    <3>2. CASE FilterKeep
      <4>1. ~TakesNext(t)
        BY <3>2 DEF FilterKeep
      <4>2. (t.kind = "flag" /\ t.name \in ValueFlags) => 1 < Len(args)
        BY <1>3, <2>1 DEF Paired
      <4> QED
        BY <1>3, <4>1, <4>2 DEF TakesNext
    <3> QED
      BY <1>5, <3>1, <3>2
  <2>3. "http" \in Defined
    BY DEF Defined
  <2> DEFINE front == <<t>>
  <2> HIDE DEF t
  <2>4. /\ front \in Seq(Token) /\ Paired(front) /\ Len(front) = 1
        /\ front[1] = t
        /\ \A name \in Defined : \A d : Said(front, name, d) =
             IF Says(t, name) THEN IF t.kind = "inline" THEN t.value ELSE "true" ELSE d
    BY <2>1, <2>2, <2>3, OneSays
  <2>5. CASE FilterDrop
    <3>1. Take(1, <<>>) /\ ~Known(t)
      BY <2>5 DEF FilterDrop, t
    <3>2. <<>> \in Seq(Token) /\ Paired(<<>>)
      BY DEF Paired
    <3>3. \A name \in Defined : \A d : Said(<<>>, name, d) = Said(front, name, d)
      <4> TAKE name \in Defined
      <4> TAKE d
      <4>1. ~Says(t, name)
        BY <3>1 DEF Known, Says
      <4>2. Said(<<>>, name, d) = d
        BY SaidNone
      <4> QED
        BY <2>4, <4>1, <4>2
    <3>4. \A i \in 1 .. 1 : front[i] = args[i]
      BY <2>4 DEF t
    <3> HIDE DEF front
    <3> QED
      BY <1>2, <2>1, <2>4, <3>1, <3>2, <3>3, <3>4, TakeMeaning
  <2>6. CASE FilterKeep
    <3>1. Take(1, front)
      BY <2>6 DEF FilterKeep, t
    <3>2. \A i \in 1 .. 1 : front[i] = args[i]
      BY <2>4 DEF t
    <3> HIDE DEF front
    <3> QED
      BY <1>2, <2>1, <2>4, <3>1, <3>2, TakeMeaning
  <2> QED
    BY <1>5, <2>5, <2>6
<1>6. CASE FilterKeepPair
  <2> DEFINE t == args[1]
             v == args[2]
             front == <<t, v>>
  <2>1. /\ args # <<>> /\ TakesNext(t) /\ 2 <= Len(args) /\ t \in Token /\ v \in Token
        /\ t.kind = "flag" /\ t.name \in ValueFlags
    BY <1>3, <1>6 DEF FilterKeepPair, TakesNext
  <2>2. v.kind = "word"
    BY <1>3, <2>1 DEF Paired
  <2>3. Take(2, front)
    BY <1>6 DEF FilterKeepPair
  <2>4. Len(front) = 2 /\ \A i \in 1 .. 2 : front[i] = args[i]
    OBVIOUS
  <2>5. "http" \in Defined
    BY DEF Defined
  <2> HIDE DEF t, v
  <2>6. front \in Seq(Token) /\ Paired(front)
    BY <2>1, <2>2, <2>5, PairSays
  <2> HIDE DEF front
  <2> QED
    BY <1>2, <2>1, <2>3, <2>4, <2>6, TakeMeaning
<1> QED
  BY <1>4, <1>5, <1>6

(* The parser takes n tokens and sets the one flag they are about.         *)
LEMMA SetMeaning ==
    ASSUME LaunchInv, stage = "parse", NEW n \in {1, 2}, n <= Len(args),
           NEW front \in Seq(Token), Len(front) = n, \A i \in 1 .. n : front[i] = args[i],
           Paired(front), NEW about \in Defined, NEW v, Set(about, v, n),
           \A name \in Defined : \A d : Said(front, name, d) = IF about = name THEN v ELSE d
    PROVE  ~Dangling' => MeaningKept'
<1> SUFFICES ASSUME ~Dangling' PROVE MeaningKept'
  OBVIOUS
<1>1. /\ UNCHANGED <<command, units, stage, kept, outcome>> /\ outcome = "none"
      /\ args' = SubSeq(args, n + 1, Len(args))
      /\ settings' = [settings EXCEPT ![Field(about)] = v]
      /\ settings \in [http : Texts, unix : Texts, addr : Texts, log : Texts]
  BY DEF Set, LaunchInv, FlagsInv, TypeOK
<1>2. /\ args \in Seq(Token) /\ Paired(args)
      /\ \A name \in Defined : Said(args, name, settings[Field(name)]) = Meant(name)
  BY <1>1, MeantStays DEF LaunchInv, FlagsInv, TypeOK, MeaningKept
<1>3. /\ Paired(args')
      /\ \A name, d : Said(args, name, d) = Said(args', name, Said(front, name, d))
  <2> DEFINE rest == SubSeq(args, n + 1, Len(args))
  <2>1. /\ rest \in Seq(Token) /\ Len(rest) = Len(args) - n
        /\ \A j \in 1 .. Len(args) - n : rest[j] = args[n + j]
    BY <1>2, SliceFacts
  <2> HIDE DEF rest
  <2>2. args \in Seq(Token) /\ Paired(args)
    BY <1>2
  <2>3. /\ Paired(rest)
        /\ \A name, d : Said(args, name, d) = Said(rest, name, Said(front, name, d))
    BY <2>1, <2>2, SplitSays, Zenon
  <2> QED
    BY <1>1, <2>3 DEF rest
<1>4. ASSUME NEW name \in Defined
      PROVE  settings'[Field(name)] = IF about = name THEN v ELSE settings[Field(name)]
  BY <1>1 DEF Field, Defined
<1>5. ASSUME NEW name \in Defined
      PROVE  Said(args', name, settings'[Field(name)]) = Meant(name)
  <2> DEFINE d == settings[Field(name)]
             e == settings'[Field(name)]
  <2>1. e = IF about = name THEN v ELSE d
    BY <1>4
  <2>2. Said(args, name, d) = Meant(name)
    BY <1>2
  <2> HIDE DEF d, e
  <2>3. Said(front, name, d) = e
    BY <2>1
  <2>4. Said(args, name, d) = Said(args', name, Said(front, name, d))
    BY <1>3
  <2> QED
    BY <2>2, <2>3, <2>4 DEF e
<1> QED
  BY <1>1, <1>3, <1>5, MeantStays DEF MeaningKept

LEMMA ParseMeaning ==
    ASSUME LaunchInv, ParseInline \/ ParseBool \/ ParseValue
    PROVE  LaunchInv'
<1>1. FlagsInv'
  BY ParseSteps DEF LaunchInv
<1>2. UNCHANGED <<command, units, stage, outcome>> /\ stage = "parse" /\ outcome = "none"
  BY DEF ParseInline, ParseBool, ParseValue, AtFlag, Set, LaunchInv, FlagsInv
<1>s. Spelt'
  BY SpeltSteps DEF LaunchInv, Spelt, Next
<1> SUFFICES ASSUME ~Dangling' PROVE MeaningKept'
  BY <1>1, <1>2, <1>s DEF LaunchInv, Spelt
<1>3. args \in Seq(Token) /\ Paired(args)
  BY <1>2, MeantStays DEF LaunchInv, FlagsInv, TypeOK, MeaningKept
<1> DEFINE t == args[1]
           about == t.name
<1>4. 1 <= Len(args) /\ t \in Token /\ about \in Defined /\ t.kind # "word"
  <2>1. AtFlag
    BY DEF ParseInline, ParseBool, ParseValue
  <2> QED
    BY <1>3, <2>1 DEF AtFlag, Known
<1>5. CASE ParseInline \/ ParseBool
  <2> DEFINE v == IF t.kind = "inline" THEN t.value ELSE "true"
             front == <<t>>
  <2>3. ~(t.kind = "flag" /\ t.name \in ValueFlags) /\ Set(about, v, 1)
    <3>1. CASE ParseInline
      BY <3>1 DEF ParseInline
    <3>2. CASE ParseBool
      <4>1. t = Flag("http") /\ Set("http", "true", 1)
        BY <3>2 DEF ParseBool
      <4> HIDE DEF t
      <4>2. t.kind = "flag" /\ t.name = "http"
        BY <4>1, Kinds
      <4> QED
        BY <4>1, <4>2 DEF ValueFlags
    <3> QED
      BY <1>5, <3>1, <3>2
  <2>4. \A i \in 1 .. 1 : front[i] = args[i]
    OBVIOUS
  <2> HIDE DEF t
  <2>5. /\ front \in Seq(Token) /\ Paired(front) /\ Len(front) = 1
        /\ \A name \in Defined : \A d : Said(front, name, d) =
             IF Says(t, name) THEN IF t.kind = "inline" THEN t.value ELSE "true" ELSE d
    BY <1>4, <2>3, OneSays
  <2> HIDE DEF front
  <2>6. \A name \in Defined : \A d : Said(front, name, d) = IF about = name THEN v ELSE d
    BY <1>4, <2>5 DEF Says
  <2> HIDE DEF about, v
  <2> QED
    BY <1>2, <1>4, <2>3, <2>4, <2>5, <2>6, SetMeaning
<1>6. CASE ParseValue
  <2> DEFINE x == args[2]
             v == x.name
             front == <<t, x>>
  <2>1. t.kind = "flag" /\ about # "http" /\ Len(args) >= 2 /\ Set(about, Text(x), 2)
    BY <1>3, <1>6 DEF ParseValue
  <2>2. about \in ValueFlags
    BY <1>4, <2>1 DEF Defined, ValueFlags
  <2>3. x \in Token /\ x.kind = "word"
    BY <1>3, <1>4, <2>1, <2>2 DEF Paired
  <2>4. Set(about, v, 2)
    BY <2>1, <2>3 DEF Text
  <2>5. Len(front) = 2 /\ \A i \in 1 .. 2 : front[i] = args[i]
    OBVIOUS
  <2> HIDE DEF t, x
  <2>6. /\ front \in Seq(Token) /\ Paired(front)
        /\ \A name \in Defined : \A d : Said(front, name, d) = IF about = name THEN v ELSE d
    BY <1>4, <2>1, <2>2, <2>3, PairSays
  <2> HIDE DEF front, about, v
  <2> QED
    BY <1>2, <1>4, <2>1, <2>4, <2>5, <2>6, SetMeaning
<1> QED
  BY <1>5, <1>6

(* Without a flag that lacks its value or is malformed the parser has no   *)
(* error to report, and it ends where nothing is left.                     *)
LEMMA EndMeaning ==
    ASSUME LaunchInv, ParseError \/ ParseEnd \/ ApplyFails \/ Serve
    PROVE  LaunchInv'
<1>1. FlagsInv' /\ Spelt'
  <2>1. FlagsInv'
    BY DEF ParseError, ParseEnd, ApplyFails, Serve, End, LaunchInv, FlagsInv, TypeOK
  <2> QED
    BY <2>1, SpeltSteps DEF LaunchInv, Spelt, Next
<1>2. UNCHANGED <<command, units, args, kept, settings>>
  BY DEF ParseError, ParseEnd, ApplyFails, Serve, End
<1> SUFFICES ASSUME ~Dangling'
             PROVE  /\ MeaningKept'
                    /\ ~Misspelt' => outcome' \in {"none", "exec", "shell", Asked'}
  BY <1>1 DEF LaunchInv, Spelt
<1>3. /\ ~Dangling /\ MeaningKept /\ args \in Seq(Token)
      /\ (Misspelt' <=> Misspelt) /\ Asked' = Asked
  BY <1>2, MeantStays DEF LaunchInv, FlagsInv, TypeOK, Misspelt, Asked
<1>4. ASSUME stage = "parse", args # <<>> PROVE Known(args[1]) /\ Paired(args) /\ 1 \in DOMAIN args
  <2> PICK starts \in SUBSET (1 .. Len(args)) : Flags(args, starts)
    BY <1>4 DEF LaunchInv, FlagsInv, FlagRun
  <2> QED
    BY <1>3, <1>4 DEF Flags, MeaningKept
<1>5. CASE ParseError
  <2>1. stage = "parse" /\ args # <<>> /\ stage' = "over" /\ outcome' = "usage"
    BY <1>5 DEF ParseError, End
  <2>2. MeaningKept'
    BY <2>1 DEF MeaningKept
  <2>3. ASSUME ~Misspelt PROVE FALSE
    <3>1. WellFormed(args[1])
      BY <1>4, <2>1, <2>3 DEF LaunchInv, WellSpelt, Malformed
    <3>2. args[1].kind = "flag" /\ args[1].name # "http" /\ Len(args) = 1
      BY <1>4, <1>5, <2>1, <3>1 DEF ParseError
    <3>3. args[1].name \in ValueFlags
      BY <1>4, <2>1, <3>2 DEF Known, Defined, ValueFlags
    <3>4. 1 < Len(args)
      BY <1>4, <2>1, <3>2, <3>3 DEF Paired
    <3> QED
      BY <3>2, <3>4
  <2> QED
    BY <1>3, <2>2, <2>3
<1>6. CASE ParseEnd
  <2>1. args = <<>> /\ stage = "parse" /\ stage' = "serve" /\ outcome = "none" /\ outcome' = "none"
    BY <1>4, <1>6 DEF ParseEnd, Known, LaunchInv, FlagsInv
  <2>2. \A name \in Defined : settings[Field(name)] = Meant(name)
    <3> TAKE name \in Defined
    <3> DEFINE d == settings[Field(name)]
    <3>1. Said(args, name, d) = d
      BY <2>1, SaidNone
    <3> QED
      BY <1>3, <2>1, <3>1 DEF MeaningKept
  <2> QED
    BY <1>2, <2>1, <2>2, MeantStays DEF MeaningKept
<1>7. CASE ApplyFails \/ Serve
  <2>1. stage = "serve" /\ stage' = "over" /\ outcome' = Asked
    BY <1>7 DEF ApplyFails, Serve, End, Asked
  <2> QED
    BY <1>2, <1>3, <2>1, MeantStays DEF MeaningKept
<1> QED
  BY <1>5, <1>6, <1>7

LEMMA NextMeaning == LaunchInv /\ [Next]_vars => LaunchInv'
<1> SUFFICES ASSUME LaunchInv, [Next]_vars PROVE LaunchInv'
  OBVIOUS
<1>1. CASE AddUnit
  BY <1>1, AddMeaning
<1>2. CASE Exec
  BY <1>2, ExecMeaning
<1>3. CASE EntryShift \/ EntryHTTP \/ EntryOnHost \/ EntryOther
  BY <1>3, EntryMeaning
<1>4. CASE FilterDrop \/ FilterKeep \/ FilterKeepPair \/ FilterEnd
  BY <1>4, FilterMeaning
<1>5. CASE ParseInline \/ ParseBool \/ ParseValue
  BY <1>5, ParseMeaning
<1>6. CASE ParseError \/ ParseEnd \/ ApplyFails \/ Serve
  BY <1>6, EndMeaning
<1>7. CASE UNCHANGED vars
  <2>1. FlagsInv'
    BY <1>7, NextFlags DEF LaunchInv
  <2>2. UNCHANGED <<command, units, stage, args, kept, settings, outcome>>
    BY <1>7 DEF vars
  <2>3. Asked' = Asked /\ (MeaningKept' <=> MeaningKept) /\ (Misspelt' <=> Misspelt)
    BY <2>2, MeantStays DEF Asked, MeaningKept, Misspelt
  <2> QED
    BY <2>1, <2>2, <2>3, MeantStays DEF LaunchInv, WellSpelt
<1> QED
  BY <1>1, <1>2, <1>3, <1>4, <1>5, <1>6, <1>7 DEF Next, Done

-----------------------------------------------------------------------------
(* What the filter keeps, and what the parser has left, is always a run of *)
(* flags with names the worker defines, each with its value but perhaps    *)
(* the last, and all well-formed where the launcher's own are; and if no   *)
(* flag lacks its value, what is left says what the launcher meant.        *)
THEOREM LaunchInvariant == Spec => []LaunchInv
<1> QED
  BY InitMeaning, NextMeaning, PTL DEF Spec

(* The two places that say which flags take a value agree: whatever a      *)
(* launcher puts on the command line, the flag package meets only flags    *)
(* with defined names, and it ends the worker only over one of these that  *)
(* the launcher left without its value or malformed, as with three dashes. *)
THEOREM ParserIsSafe == Spec => []ParserMeetsOnlyDefined
<1>1. LaunchInv => ParserMeetsOnlyDefined
  <2>1. ASSUME LaunchInv, stage = "parse", args # <<>>
        PROVE  Known(args[1])
    <3> PICK starts \in SUBSET (1 .. Len(args)) : Flags(args, starts)
      BY <2>1 DEF LaunchInv, FlagsInv, FlagRun
    <3> QED
      BY <2>1 DEF Flags
  <2>2. ASSUME LaunchInv, outcome = "usage"
        PROVE  Dangling \/ Misspelt
    BY <2>2 DEF LaunchInv, Asked
  <2> QED
    BY <2>1, <2>2 DEF ParserMeetsOnlyDefined
<1> QED
  BY <1>1, LaunchInvariant, PTL

(* However many flags of its own a launcher adds, in whatever order, the   *)
(* worker serves the transport that the last word on http and unix asks    *)
(* for and is ended by no flag but a refused log level, if the worker's    *)
(* own flags are well-formed and have their values, and but for the        *)
(* entrypoint's "unix <sock>", where a word would have to count.           *)
THEOREM TransportIsMeant == Spec => []RightTransport
<1>1. LaunchInv => RightTransport
  <2> SUFFICES ASSUME LaunchInv, outcome \in {"http", "unix", "stdio", "usage", "fatal"},
                      ~Dangling, ~Misspelt
               PROVE  /\ settings.unix = Meant("unix")
                      /\ outcome = IF Meant("log-level") \in BadLogs THEN "fatal"
                                   ELSE IF Meant("http") \in Truths THEN "http"
                                   ELSE IF Meant("unix") # "" THEN "unix" ELSE "stdio"
    BY DEF RightTransport
  <2>1. outcome = Asked /\ outcome # "usage"
    BY DEF LaunchInv, Asked
  <2>2. \A name \in Defined : settings[Field(name)] = Meant(name)
    BY <2>1 DEF LaunchInv, MeaningKept
  <2>3. /\ settings.unix = Meant("unix") /\ settings.http = Meant("http")
        /\ settings.log = Meant("log-level")
    BY <2>2 DEF Defined, Field
  <2> QED
    BY <2>1, <2>3 DEF Asked
<1> QED
  BY <1>1, LaunchInvariant, PTL

(* An HTTP server listens on the address that was said last, and without a *)
(* word on it on every interface in the image, on the loopback elsewhere.  *)
THEOREM AddressIsMeant == Spec => []ReachableWhereMeant
<1>1. LaunchInv => ReachableWhereMeant
  <2> SUFFICES ASSUME LaunchInv, outcome = "http", ~Dangling
               PROVE  settings.addr = Meant("http-addr")
    BY DEF ReachableWhereMeant
  <2>1. \A name \in Defined : settings[Field(name)] = Meant(name)
    BY DEF LaunchInv, MeaningKept
  <2> QED
    BY <2>1 DEF Defined, Field
<1> QED
  BY <1>1, LaunchInvariant, PTL
====
