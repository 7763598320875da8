----------------------------- MODULE HelperArgv -----------------------------
(***************************************************************************)
(* The command line between the unprivileged callers and orcker-helper:    *)
(* HelperInvocation::to_argv on one side, and on the other clap's parser,   *)
(* which decides, beside HelperInvocation::from_argv, which is only asked   *)
(* whether it read the same operation.  A word is an operation, a flag or  *)
(* a value; the words a caller sends may reach the helper altered once.    *)
(***************************************************************************)
EXTENDS Naturals, Sequences, SequencesExt, TLC

Ports == {"--http-from", "--http-to", "--https-from", "--https-to"}

\* The operations and the flags each one requires, in the order to_argv writes them.
FlagsOf ==
    "install-ca" :> <<"--pem", "--fingerprint">>
      @@ "uninstall-ca" :> <<"--fingerprint">>
      @@ "install-resolver" :> <<"--tld", "--addr">>
      @@ "uninstall-resolver" :> <<"--tld">>
      @@ "setcap" :> <<"--binary">>
      @@ "install-port-redirect" :> <<"--http-from", "--http-to", "--https-from",
                                      "--https-to">>
      @@ "uninstall-port-redirect" :> <<>>
      @@ "install-lan-port-redirect" :> <<"--lan-ip", "--http-from", "--http-to",
                                          "--https-from", "--https-to">>
      @@ "uninstall-lan-port-redirect" :> <<>>

Ops == DOMAIN FlagsOf
Flags == UNION {ToSet(FlagsOf[op]) : op \in Ops}

\* Values by what the parsers tell apart: text that is no fingerprint, address or port,
\* an uppercase fingerprint, and a LAN address that is loopback.
ValuesOf(flag) ==
    CASE flag = "--fingerprint" -> {"fp"}
      [] flag = "--addr" -> {"addr"}
      [] flag = "--lan-ip" -> {"ip"}
      [] flag \in Ports -> {"80", "443"}
      [] OTHER -> {"text"}

Values == {"fp", "FP", "addr", "ip", "127.0.0.1", "80", "443", "text"}

Invocations == UNION {[op : {op}, with : {f \in [ToSet(FlagsOf[op]) -> Values] :
                          \A g \in DOMAIN f : f[g] \in ValuesOf(g)}] : op \in Ops}

\* ------------------------------------------------------------ the two sides

to_argv(inv) ==
    <<inv.op>> \o FoldLeft(LAMBDA acc, g : acc \o <<g, inv.with[g]>>, <<>>,
                           FlagsOf[inv.op])

\* What from_argv takes as the value of a flag.
ParsesAs(flag, v) ==
    CASE flag = "--fingerprint" -> v = "fp"
      [] flag = "--addr" -> v = "addr"
      [] flag = "--lan-ip" -> v = "ip"
      [] flag \in Ports -> v \in {"80", "443"}
      [] OTHER -> TRUE

\* What clap takes: an uppercase fingerprint is refused afterwards, by
\* parse_fingerprint_str, a loopback LAN address is an address, and a flag is no value.
ClapParses(flag, v) ==
    /\ v \notin Flags
    /\ ParsesAs(flag, v) \/ (flag = "--lan-ip" /\ v = "127.0.0.1")

Fail == [op |-> "none", with |-> <<>>]

Pairs(rest) == [i \in 1 .. Len(rest) \div 2 |-> <<rest[2*i - 1], rest[2*i]>>]
LastOf(pairs, g) == pairs[CHOOSE i \in DOMAIN pairs : pairs[i][1] = g
                            /\ \A j \in DOMAIN pairs : pairs[j][1] = g => j <= i][2]

into_invocation(op, pairs) ==
    [op |-> op, with |-> [g \in ToSet(FlagsOf[op]) |-> LastOf(pairs, g)]]

\* The parsers of the operations: flag and value pairs in any order, nothing left over,
\* every flag known and none missing; the last of a repeated flag counts.
ReadFlags(op, rest) ==
    LET pairs == Pairs(rest)
    IN IF /\ Len(rest) % 2 = 0
          /\ {pairs[i][1] : i \in DOMAIN pairs} = ToSet(FlagsOf[op])
          /\ \A i \in DOMAIN pairs : ParsesAs(pairs[i][1], pairs[i][2])
       THEN into_invocation(op, pairs)
       ELSE Fail

from_argv(argv) ==
    IF argv = <<>> \/ (argv # <<>> /\ Head(argv) \notin Ops) THEN Fail
    ELSE ReadFlags(Head(argv), Tail(argv))

clap_parse_repeats(argv) ==
    IF argv = <<>> \/ (argv # <<>> /\ Head(argv) \notin Ops) THEN Fail
    ELSE LET op == Head(argv)
             rest == Tail(argv)
             pairs == Pairs(rest)
             known == ToSet(FlagsOf[op])
         IN IF /\ Len(rest) % 2 = 0
               /\ {pairs[i][1] : i \in DOMAIN pairs} = known
               /\ \A i \in DOMAIN pairs : ClapParses(pairs[i][1], pairs[i][2])
            THEN into_invocation(op, pairs)
            ELSE Fail

\* clap: the same, and a repeated flag is an error.
clap_parse(argv) ==
    LET read == clap_parse_repeats(argv)
    IN IF read # Fail /\ Len(argv) = 1 + 2 * Len(FlagsOf[read.op]) THEN read ELSE Fail

\* cli::parse: clap decides; the other parser may only disagree on the operation.
parse(argv) ==
    LET read == clap_parse(argv)
        other == from_argv(argv)
    IN IF read = Fail \/ (other # Fail /\ other.op # read.op) THEN Fail ELSE read

\* ------------------------------------------------------------------ a call
VARIABLES inv, argv, run, pc

vars == <<inv, argv, run, pc>>

TypeOK ==
    /\ inv.op \in Ops /\ DOMAIN inv.with = ToSet(FlagsOf[inv.op])
    /\ run.op \in Ops \cup {"none"}
    /\ pc \in {"plan", "sent", "altered", "run", "run altered"}

Init == inv \in Invocations /\ argv = <<>> /\ run = Fail /\ pc = "plan"

Send == pc = "plan" /\ argv' = to_argv(inv) /\ pc' = "sent" /\ UNCHANGED <<inv, run>>

\* One word is lost, added, replaced or exchanged with another.
Alter ==
    /\ pc = "sent" /\ pc' = "altered"
    /\ \E i \in DOMAIN argv :
         \/ argv' = RemoveAt(argv, i)
         \/ \E w \in Values \cup Flags \cup Ops : argv' = [argv EXCEPT ![i] = w]
         \/ \E w \in Flags : argv' = argv \o <<w, argv[i]>>
         \/ \E j \in DOMAIN argv : argv' = [argv EXCEPT ![i] = argv[j], ![j] = argv[i]]
    /\ UNCHANGED <<inv, run>>

Receive ==
    /\ pc \in {"sent", "altered"} /\ run' = parse(argv)
    /\ pc' = IF pc = "sent" THEN "run" ELSE "run altered"
    /\ UNCHANGED <<inv, argv>>

Next == Send \/ Alter \/ Receive

Spec == Init /\ [][Next]_vars

\* The helper runs what was planned: written by one binary and read by another, an
\* invocation comes out as it went in.
CallArrives == pc = "run" => run = inv

\* Words that were altered on the way are refused, or are the call that they spell: the
\* helper never fills in a value, never drops a word and never lets one override another.
NothingInvented ==
    (pc = "run altered" /\ run # Fail) =>
        /\ Len(argv) = Len(to_argv(run))
        /\ Head(argv) = run.op
        /\ ToSet(Pairs(Tail(argv))) = ToSet(Pairs(Tail(to_argv(run))))
=============================================================================
