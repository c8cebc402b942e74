---------------------------- MODULE MCNvsharectl ----------------------------
(* Small instances of Nvsharectl for TLC *)
EXTENDS Nvsharectl

(* Every option in both forms, alone, clustered and with values that are     *)
(* good, empty, not numbers, too large for int or for long; what is no       *)
(* option; the two dashes.                                                   *)
Tokens ==
    {Short(<<"T">>), Short(<<"S">>), Short(<<"h">>), Short(<<"h", "T">>),
     Short(<<"T", "h">>), Short(<<"x">>)}
    \cup {Long("set-tq", v) : v \in {Number(5), Number(-1), Number(17), Number(50),
                                     Word("junk"), NoValue}}
    \cup {Long("anti-thrash", v) : v \in {Word("on"), Word("bad")}}
    \cup {Long("help", NoValue), Long("help", Word("junk")), Long("bogus", NoValue)}
    \cup {Extra(v) : v \in {Number(5), Number(0), Word("off"), NoValue}}
    \cup {Dash, DoubleDash}

(* Up to three arguments, then plain commands *)
AllArgvs == UNION {[1 .. n -> Tokens] : n \in 0 .. 3}

PlainArgvs == {<<Long("anti-thrash", Word(w))>> : w \in {"on", "off"}}
=============================================================================
