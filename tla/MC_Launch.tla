----------------------------- MODULE MC_Launch -----------------------------
(* Instances of Launch for TLC. *)
EXTENDS Launch

(* The worker's own flags in both forms, flags of a launcher that the      *)
(* worker does not define, a stray word, a flag without its value, a log   *)
(* level there is not, a bad Boolean, and flags with three dashes.         *)
MCUnits ==
    { <<Flag("http")>>, <<FlagEq("http", "false")>>,
      <<Flag("http-addr"), Word("0.0.0.0:9000")>>,
      <<Flag("unix"), Word("cve.sock")>>, <<FlagEq("unix", "other.sock")>>,
      <<Flag("log-level"), Word("debug")>>,
      <<Flag("cache-key")>>, <<Flag("cache-key"), Word("k1")>>, <<FlagEq("cache-key", "k1")>>,
      <<Word("cve.sock")>>, <<Flag("unix")>>,
      <<Flag("log-level"), Word("loud")>>, <<FlagEq("http", "maybe")>>, <<FlagEq("http", "1")>>,
      <<Extra(Flag("http"))>>, <<Extra(Flag("unix")), Word("cve.sock")>>,
      <<Extra(FlagEq("cache-key", "k1"))>> }
AllTexts    == STRING
AllCommands == {"direct", "", "http", "stdio", "unix", "other"}
NoArgument  == {""}
UnixMode    == {"unix"}
====
