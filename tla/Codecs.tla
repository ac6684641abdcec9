------------------------------- MODULE Codecs -------------------------------
(***************************************************************************)
(* The pure algorithms of the server, and the input stream they serve:     *)
(* request syntax, pattern matching, deadlines and the snapshot format.  A *)
(* behaviour reads one stream in some way (RequestStream) or holds one     *)
(* input of one algorithm, the probe, which the invariants look at.        *)
(***************************************************************************)
EXTENDS RequestStream, Glob, ExpiryOptions, RdbFormat

CONSTANTS
    ArgBytes, MaxArg,         \* arguments to encode: bytes, length
    IntBytes, MaxIntProbe,    \* texts read as integers
    GlobBytes, MaxPattern,    \* patterns
    GlobChars, MaxGlobText,   \* texts to match
    Amounts, Clocks,          \* numbers after an expiry option; times
    MaxOptions,               \* arguments after SET key value
    Snapshots, Lengths        \* lists of records; lengths

VARIABLE probe

vars == <<streamVars, probe>>

NoProbe == [kind |-> "none"]

OptionArgs ==
    {Word(w) : w \in {"EX", "PXAT", "KEEPTTL", "NX", "XX", "GET"}}
        \cup {Text(ToText(n)) : n \in {-1, 1}}

Probes ==
         [kind : {"args"}, a : Texts(ArgBytes, MaxArg), b : Texts(ArgBytes, MaxArg)]
    \cup [kind : {"int"}, text : Texts(IntBytes, MaxIntProbe)]
    \cup [kind : {"glob"}, pattern : Texts(GlobBytes, MaxPattern)]
    \cup [kind : {"expiry"}, opt : Relative \cup Absolute, n : Amounts,
          now : Clocks, build : {"wraps", "assumes"}]
    \cup [kind : {"options"}, args : Texts(OptionArgs, MaxOptions),
          now : Clocks, build : {"wraps", "assumes"}]
    \cup [kind : {"rdb"}, records : Snapshots]
    \cup [kind : {"length"}, len : Lengths]

Init ==
    \/ StreamInit /\ probe = NoProbe
    \/ /\ probe \in Probes
       /\ handler = "none" /\ stream = <<>> /\ arrived = 0
       /\ buf = EmptyBuffer /\ log = <<>>

Next == StreamNext /\ UNCHANGED probe

Spec == Init /\ [][Next]_vars

-----------------------------------------------------------------------------
(***************************************************************************)
(* What the server writes it can read: a command encoded for the AOF or    *)
(* for a replica, whatever bytes its arguments hold, is parsed back to     *)
(* itself however it is followed, and no proper prefix of it is taken for  *)
(* a request or for an error (Aof::encode and parse_request).              *)
(***************************************************************************)
EncodingIsSelfDelimiting ==
    probe.kind = "args" =>
        LET args == <<probe.a, probe.b>>
            text == encode(args)
        IN  /\ \A more \in {<<>>, <<CR>>, text} :
                   parse_request(text \o more) = Parsed(Len(text), args)
            /\ \A n \in 0..(Len(text) - 1) :
                   parse_request(SubSeq(text, 1, n)) = Incomplete

(***************************************************************************)
(* parse_int and to_int64 accept exactly an optional sign and digits whose *)
(* value fits, up to the length to_int64 looks at, and return that value;  *)
(* to_string of it is read back.  The smallest integer is refused by both. *)
(***************************************************************************)
IntegersExact ==
    probe.kind = "int" =>
        LET t == probe.text
            digits == Unsigned(t)
            sum == FoldLeft(LAMBDA v, c : 10 * v + (c - Zero), 0, digits)
            value == IF t # <<>> /\ t[1] = Minus THEN -sum ELSE sum
            legal == digits # <<>> /\ Range(digits) \subseteq Digit /\ sum <= MaxInt
        IN  /\ parse_int(t) = IF legal THEN Integer(value) ELSE NotAnInteger
            /\ to_int64(t) = IF legal /\ Len(t) <= MaxIntText THEN Integer(value)
                                                              ELSE NotAnInteger
            /\ legal => to_int64(ToText(value)) = Integer(value)

(***************************************************************************)
(* glob_match decides what the pattern means: going back to the latest     *)
(* star only, it misses no match, and no text is matched that should not   *)
(* be, with classes, ranges either way round, escapes and patterns that    *)
(* end in the middle of one.                                               *)
(***************************************************************************)
GlobExact ==
    probe.kind = "glob" =>
        \A text \in Texts(GlobChars, MaxGlobText) :
            glob_match(probe.pattern, text) = Means(probe.pattern, text)

(***************************************************************************)
(* An accepted SET has one deadline, the one it asks for: DeadlineAsAsked  *)
(* of every expiry option with every amount, and OptionsExclusive of every *)
(* list of options (the loop of cmd_set).                                  *)
(***************************************************************************)
DeadlinesAsAsked ==
    /\ probe.kind = "expiry" =>
           DeadlineAsAsked(probe.opt, ToText(probe.n), probe.now, probe.build)
    /\ probe.kind = "options" =>
           OptionsExclusive(probe.args, probe.now, probe.build)

(***************************************************************************)
(* ReplaysAlike of every list of options and every amount: the deadline a  *)
(* client was given is the deadline after a restart and on a replica.      *)
(***************************************************************************)
ReplayedSetsAlike ==
    /\ probe.kind = "options" =>
           \A later \in Clocks :
               ReplaysAlike(probe.args, probe.now, later, probe.build)
    /\ probe.kind = "expiry" =>
           \A later \in Clocks :
               ReplaysAlike(<<Word(probe.opt), Text(ToText(probe.n))>>,
                            probe.now, later, probe.build)

(***************************************************************************)
(* ReadsBack of every snapshot and LengthReadsBack of every length: what   *)
(* SAVE writes, a restart or a replica reads.                              *)
(***************************************************************************)
SnapshotsReadBack ==
    /\ probe.kind = "rdb" => ReadsBack(probe.records)
    /\ probe.kind = "length" => LengthReadsBack(probe.len)

(***************************************************************************)
(* A file that is not what was saved is refused, and as a whole (rdb_parse *)
(* of what a crash or a bad disk left behind): CutsRefused, DamageRefused  *)
(* and RefusalIsWhole of every snapshot.                                   *)
(***************************************************************************)
DamagedSnapshotsRefused ==
    probe.kind = "rdb" =>
        /\ CutsRefused(probe.records)
        /\ DamageRefused(probe.records)
        /\ RefusalIsWhole(probe.records)
=============================================================================
