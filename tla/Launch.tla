------------------------------- MODULE Launch -------------------------------
(***************************************************************************)
(* How a worker comes to serve one of its transports: docker-entrypoint.sh *)
(* or a launcher builds the arguments, filterKnownFlags drops what the     *)
(* binary does not define, the flag package parses the rest, and main      *)
(* serves HTTP, a Unix socket or stdio (cmd/vgi-cve-worker/main.go).       *)
(*                                                                         *)
(* A command line is a sequence of units, each the tokens one launcher     *)
(* means to belong together.  Log flags stand for all of the SDK's.        *)
(***************************************************************************)
EXTENDS Integers, Sequences, SequencesExt

CONSTANTS
    Texts,     \* names of flags, words and values of flags
    Units,     \* what a launcher may put on a command line
    MaxUnits,  \* bound: units on one command line
    Commands,  \* what the entrypoint is called with; "direct" without it
    BadLogs    \* values of log flags that logFlags.Apply refuses

VARIABLES
    command,   \* the entrypoint's first argument, "" if there is none
    units,     \* the units after it
    stage,     \* "launcher", "entrypoint", "filter", "parse", "serve", "over"
    args,      \* the tokens not yet looked at
    kept,      \* filterKnownFlags' out
    settings,  \* the parsed flags
    outcome    \* "none", "http", "unix", "stdio", "exec", "usage", "shell", "fatal"

vars == <<command, units, stage, args, kept, settings, outcome>>

(* Tokens: a word, -name or --name, -name=value or --name=value, or one of *)
(* these with extra dashes, three or more: to filterKnownFlags, which trims*)
(* any number, still a flag, to the flag package bad syntax.               *)
Token == [kind : {"word", "flag", "inline"}, extra : BOOLEAN, name : Texts, value : Texts]
Word(w)         == [kind |-> "word", extra |-> FALSE, name |-> w, value |-> ""]
Flag(name)      == [kind |-> "flag", extra |-> FALSE, name |-> name, value |-> ""]
FlagEq(name, v) == [kind |-> "inline", extra |-> FALSE, name |-> name, value |-> v]
Extra(t)        == [t EXCEPT !.extra = TRUE]
Text(t)            == IF t.kind = "word" THEN t.name ELSE "--"

Defined    == {"http", "http-addr", "unix", "log-level"}
ValueFlags == {"http-addr", "unix", "log-level"}

(* The values strconv.ParseBool reads. *)
Truths     == {"1", "t", "T", "true", "TRUE", "True"}
Falsehoods == {"0", "f", "F", "false", "FALSE", "False"}

(* A launcher's unit is one token, or a flag and its value; http, a        *)
(* Boolean, has none of its own.                                           *)
Proper(t) ==
    /\ t \in Token
    /\ t.kind # "inline" => t.value = ""
    /\ t.kind = "word" => ~t.extra
IsUnit(u) ==
    \/ Len(u) = 1 /\ Proper(u[1])
    \/ /\ Len(u) = 2 /\ Proper(u[1]) /\ u[2] = Word(u[2].name)
       /\ u[1].kind = "flag" /\ u[1].name # "http"

Loopback == "127.0.0.1:0"
AllInterfaces == "0.0.0.0:8000"
Defaults == [http |-> "false", unix |-> "", addr |-> Loopback, log |-> "info"]

ASSUME LaunchAssumption ==
    /\ Commands \subseteq {"direct", "", "http", "stdio", "unix", "other"}
    /\ Defined \cup {Loopback, AllInterfaces, "", "--", "true", "false", "info"} \subseteq Texts
    /\ Units \subseteq Seq(Token) /\ MaxUnits \in Nat
    /\ \A u \in Units : IsUnit(u)
    /\ "info" \notin BadLogs

Init ==
    /\ command \in Commands /\ units = <<>>
    /\ stage = "launcher" /\ args = <<>> /\ kept = <<>>
    /\ settings = Defaults /\ outcome = "none"

(* A launcher composes the command line and runs the entrypoint or the     *)
(* worker itself.                                                          *)
AddUnit ==
    /\ stage = "launcher" /\ command # "" /\ Len(units) < MaxUnits
    /\ \E u \in Units : units' = Append(units, u) /\ args' = args \o u
    /\ UNCHANGED <<command, stage, kept, settings, outcome>>
Exec ==
    /\ stage = "launcher"
    /\ stage' = IF command = "direct" THEN "filter" ELSE "entrypoint"
    /\ UNCHANGED <<command, units, args, kept, settings, outcome>>

End(result) ==
    /\ stage' = "over" /\ outcome' = result
    /\ UNCHANGED <<command, units, args, kept, settings>>

-----------------------------------------------------------------------------
(* The entrypoint.  In the image's shell (dash) "shift" without arguments  *)
(* is an error of a special built-in: it ends the script, "|| true" or not.*)

StartWorker(tokens) ==
    /\ stage' = "filter" /\ args' = tokens
    /\ UNCHANGED <<command, units, kept, settings, outcome>>

(* (A slip: the address forgotten.) *)
HTTPFlagsLocal == <<Flag("http")>>
HTTPFlags      == <<Flag("http"), Flag("http-addr"), Word(AllInterfaces)>>

EntryShift == stage = "entrypoint" /\ command = "" /\ End("shell")
EntryHTTP ==
    stage = "entrypoint" /\ command = "http" /\ StartWorker(HTTPFlags \o args)
EntryOnHost ==
    stage = "entrypoint" /\ command \in {"stdio", "unix"} /\ StartWorker(args)
EntryOther == stage = "entrypoint" /\ command = "other" /\ End("exec")

-----------------------------------------------------------------------------
(* filterKnownFlags, one token after the other. *)

Take(n, out) ==
    /\ args' = SubSeq(args, n + 1, Len(args)) /\ kept' = kept \o out
    /\ UNCHANGED <<command, units, stage, settings, outcome>>

Known(t) == t.kind # "word" /\ t.name \in Defined

(* (Slips: every defined flag takes the token after it, or none does.)     *)
TakesNextNever(t) == FALSE
TakesNextAny(t) == t.kind = "flag" /\ Len(args) > 1
TakesNext(t) == t.kind = "flag" /\ t.name \in ValueFlags /\ Len(args) > 1

FilterDrop == stage = "filter" /\ args # <<>> /\ ~Known(args[1]) /\ Take(1, <<>>)
FilterKeep ==
    /\ stage = "filter" /\ args # <<>> /\ Known(args[1]) /\ ~TakesNext(args[1])
    /\ Take(1, <<args[1]>>)
FilterKeepPair ==
    /\ stage = "filter" /\ args # <<>> /\ Known(args[1]) /\ TakesNext(args[1])
    /\ Take(2, <<args[1], args[2]>>)
FilterEnd ==
    /\ stage = "filter" /\ args = <<>>
    /\ stage' = "parse" /\ args' = kept
    /\ UNCHANGED <<command, units, kept, settings, outcome>>

-----------------------------------------------------------------------------
(* flag.Parse on what is left; it stops at the first word. *)

Field(name) ==
    CASE name = "http" -> "http" [] name = "unix" -> "unix"
      [] name = "http-addr" -> "addr" [] name = "log-level" -> "log"
Set(name, v, n) ==
    /\ settings' = [settings EXCEPT ![Field(name)] = v]
    /\ args' = SubSeq(args, n + 1, Len(args))
    /\ UNCHANGED <<command, units, stage, kept, outcome>>

AtFlag == stage = "parse" /\ args # <<>> /\ args[1].kind # "word" /\ Known(args[1])
(* What the flag package reads: one dash or two, and a Boolean for http.   *)
WellFormed(t) ==
    ~t.extra /\ (t.kind = "inline" /\ t.name = "http" => t.value \in Truths \cup Falsehoods)
ParseInline ==
    /\ AtFlag /\ WellFormed(args[1]) /\ args[1].kind = "inline"
    /\ Set(args[1].name, args[1].value, 1)
ParseBool == AtFlag /\ args[1] = Flag("http") /\ Set("http", "true", 1)
ParseValue ==
    /\ AtFlag /\ WellFormed(args[1])
    /\ args[1].kind = "flag" /\ args[1].name # "http" /\ Len(args) > 1
    /\ Set(args[1].name, Text(args[2]), 2)
(* A flag that is not defined, is malformed or needs a value ends the      *)
(* worker.                                                                 *)
ParseError ==
    /\ stage = "parse" /\ args # <<>> /\ args[1].kind # "word"
    /\ \/ ~Known(args[1]) \/ ~WellFormed(args[1])
       \/ args[1].kind = "flag" /\ args[1].name # "http" /\ Len(args) = 1
    /\ End("usage")
ParseEnd ==
    /\ stage = "parse" /\ (args # <<>> => args[1].kind = "word")
    /\ stage' = "serve" /\ UNCHANGED <<command, units, args, kept, settings, outcome>>

(* main applies the log flags, where a value they refuse is fatal, and     *)
(* then calls the SDK's server of one transport.                           *)
ApplyFails == stage = "serve" /\ settings.log \in BadLogs /\ End("fatal")
Serve ==
    /\ stage = "serve" /\ settings.log \notin BadLogs
    /\ End(CASE settings.http \in Truths -> "http"
             [] settings.http \notin Truths /\ settings.unix # "" -> "unix"
             [] OTHER -> "stdio")

Done == stage = "over" /\ UNCHANGED vars
Next ==
    \/ AddUnit \/ Exec
    \/ EntryShift \/ EntryHTTP \/ EntryOnHost \/ EntryOther
    \/ FilterDrop \/ FilterKeep \/ FilterKeepPair \/ FilterEnd
    \/ ParseInline \/ ParseBool \/ ParseValue \/ ParseError \/ ParseEnd
    \/ ApplyFails \/ Serve \/ Done
Spec == Init /\ [][Next]_vars
-----------------------------------------------------------------------------
TypeOK ==
    /\ command \in Commands /\ units \in Seq(Units)
    /\ stage \in {"launcher", "entrypoint", "filter", "parse", "serve", "over"}
    /\ args \in Seq(Token) /\ kept \in Seq(Token)
    /\ settings \in [http : Texts, unix : Texts, addr : Texts, log : Texts]
    /\ outcome \in {"none", "http", "unix", "stdio", "exec", "usage", "shell", "fatal"}

(* Where the flag at i leaves off, as both the filter and the parser see   *)
(* it, when it has its value.                                              *)
After(s, i) == IF s[i].kind = "flag" /\ s[i].name \in ValueFlags THEN i + 2 ELSE i + 1

(* A run of flags, one behind the other from the first token to the last,  *)
(* all known; only the last may lack its value.                            *)
Flags(s, starts) ==
    /\ starts \subseteq 1 .. Len(s)
    /\ s # <<>> => 1 \in starts
    /\ \A i \in starts : Known(s[i]) /\ (After(s, i) <= Len(s) => After(s, i) \in starts)
FlagRun(s) == \E starts \in SUBSET (1 .. Len(s)) : Flags(s, starts)
WholeRun(s) ==
    \E starts \in SUBSET (1 .. Len(s)) :
        Flags(s, starts) /\ \A i \in starts : After(s, i) <= Len(s) + 1

(* What a flag token is about. *)
Says(t, name) == t.kind # "word" /\ t.name = name

(* The value of a unit, as the launcher means it, and the one it gives     *)
(* last to a flag.                                                         *)
Value(u) ==
    CASE u[1].kind = "inline" -> u[1].value
      [] u[1].kind = "flag" /\ Len(u) = 2 -> u[2].name
      [] OTHER -> "true"
Given(us, name, default) ==
    LET said == {i \in DOMAIN us : Says(us[i][1], name)}
    IN  IF said = {} THEN default ELSE Value(us[Max(said)])

(* A value flag without its value swallows the token after it. *)
Alone(u) == Len(u) = 1 /\ u[1].kind = "flag" /\ u[1].name \in ValueFlags
Dangling == \E i \in DOMAIN units : Alone(units[i])

(* A flag of the worker's own that the flag package cannot read.           *)
Malformed(t) == Known(t) /\ ~WellFormed(t)
Misspelt == \E i \in DOMAIN units : Malformed(units[i][1])
WellSpelt(s) == \A i \in DOMAIN s : ~Malformed(s[i])

(* "unix <sock>", as docker-entrypoint.sh:9 has it: the socket is a word.  *)
SocketAsWord == command = "unix" /\ units # <<>> /\ units[1][1].kind = "word"

(* The same of a sequence of tokens in which each flag has its value.      *)
Paired(s) ==
    \A i \in DOMAIN s :
        (s[i].kind = "flag" /\ s[i].name \in ValueFlags)
            => i < Len(s) /\ s[i + 1].kind = "word"
ValueAt(s, i) ==
    IF s[i].kind = "inline" THEN s[i].value
    ELSE IF s[i].name \in ValueFlags THEN s[i + 1].name ELSE "true"
Said(s, name, default) ==
    LET said == {i \in DOMAIN s : Says(s[i], name)}
    IN  IF said = {} THEN default ELSE ValueAt(s, Max(said))

(* What a flag is without the launcher's, and what it is meant to be.      *)
Preset(name) ==
    CASE name = "http" -> IF command = "http" THEN "true" ELSE "false"
      [] name = "http-addr" -> IF command = "http" THEN AllInterfaces ELSE Loopback
      [] name = "unix" -> "" [] name = "log-level" -> "info"
Meant(name) == Given(units, name, Preset(name))

(* What is still to be parsed says of each flag what the launcher meant.   *)
MeaningKept ==
    /\ stage \in {"launcher", "entrypoint"} =>
          Paired(args) /\ \A name \in Defined : Said(args, name, Preset(name)) = Meant(name)
    /\ stage = "filter" =>
          /\ Paired(kept) /\ Paired(args)
          /\ \A name \in Defined :
                Said(kept \o args, name, Defaults[Field(name)]) = Meant(name)
    /\ stage = "parse" =>
          /\ Paired(args)
          /\ \A name \in Defined : Said(args, name, settings[Field(name)]) = Meant(name)
    /\ (stage = "serve" \/ outcome \in {"http", "unix", "stdio", "fatal"}) =>
          \A name \in Defined : settings[Field(name)] = Meant(name)

(* The end that the parsed flags ask for. *)
Asked ==
    IF settings.log \in BadLogs THEN "fatal"
    ELSE IF settings.http \in Truths THEN "http"
    ELSE IF settings.unix # "" THEN "unix" ELSE "stdio"

(* The inductive invariant: what the filter has kept, and what the parser  *)
(* has left, is a run of flags with defined names, all well-formed if the  *)
(* launcher's are, and if none lacks its value, the last of them say what  *)
(* the launcher meant.                                                     *)
FlagsInv ==
    /\ TypeOK
    /\ stage \in {"launcher", "entrypoint"} => kept = <<>>
    /\ stage = "filter" => FlagRun(kept) /\ (args # <<>> => WholeRun(kept))
    /\ stage = "parse" => FlagRun(args)
    /\ stage \in {"launcher", "entrypoint", "filter"} => settings = Defaults
    /\ stage # "over" => outcome = "none"
LaunchInv ==
    /\ FlagsInv
    /\ ~Misspelt => WellSpelt(args) /\ WellSpelt(kept)
    /\ ~Dangling => MeaningKept
    /\ ~Dangling /\ ~Misspelt => outcome \in {"none", "exec", "shell", Asked}

(* filterKnownFlags and the flag package agree on which flags take the     *)
(* token after them: whatever the command line, the parser never meets a   *)
(* flag whose name the worker does not define, which would end it, nor a   *)
(* stray word, at which it would silently stop before the flags behind it; *)
(* and it ends the worker only over a flag of the worker's own that the    *)
(* launcher left without its value or wrote as the flag package cannot     *)
(* read it, with three dashes or a bad Boolean (which the filter keeps).   *)
ParserMeetsOnlyDefined ==
    /\ (stage = "parse" /\ args # <<>>) => Known(args[1])
    /\ outcome = "usage" => Dangling \/ Misspelt

(* The flags a launcher adds to key its cache of workers, with or without  *)
(* values, and stray words never change which transport is served, nor on  *)
(* which socket, and never abort the worker ("Unknown launcher flags are   *)
(* tolerated", main.go:20-22); only a log flag may, whose last value Apply *)
(* refuses.  This is about launchers that write the worker's own flags as  *)
(* it reads them; "unix <sock>" is not among them (UnixServesItsSocket).   *)
RightTransport ==
    (/\ outcome \in {"http", "unix", "stdio", "usage", "fatal"}
     /\ ~Dangling /\ ~Misspelt /\ ~SocketAsWord)
    => /\ settings.unix = Meant("unix")
       /\ outcome = IF Meant("log-level") \in BadLogs THEN "fatal"
                    ELSE IF Meant("http") \in Truths THEN "http"
                    ELSE IF Meant("unix") # "" THEN "unix" ELSE "stdio"

(* The HTTP server of a container listens where a published port and the   *)
(* health check reach it, unless told otherwise; a worker started outside  *)
(* one stays on the loopback (docker-entrypoint.sh:20-22).                 *)
ReachableWhereMeant ==
    (outcome = "http" /\ ~Dangling) => settings.addr = Meant("http-addr")

(* Without an argument the entrypoint starts the HTTP server ("http        *)
(* (default)", docker-entrypoint.sh:5).                                    *)
DefaultIsHTTP == (command = "" /\ outcome # "none") => outcome = "http"

(* "unix <sock>  the AF_UNIX launcher socket" (docker-entrypoint.sh:9, and *)
(* Dockerfile:6): called so, the entrypoint serves that socket.            *)
UnixServesItsSocket ==
    (SocketAsWord /\ Len(units) = 1 /\ outcome # "none") =>
        outcome = "unix" /\ settings.unix = units[1][1].name
====
