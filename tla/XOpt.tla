-------------------------------- MODULE XOpt --------------------------------
(***************************************************************************)
(* The option parser nvsharectl uses (src/src/xopt.c) with the option      *)
(* table and the flags nvsharectl gives it (src/src/cli.c):                *)
(* XOPT_CTX_POSIXMEHARDER and XOPT_CTX_STRICT, no required option and no   *)
(* option with an optional value.  argv[0] is left out.                    *)
(*                                                                         *)
(* An argument is a token: what strchr('=') and the leading dashes make of *)
(* its text.  A value is a word; "number" stands for a text strtol() reads *)
(* to its end, and has that number.  An empty value and no value are both  *)
(* the word "", as the code treats them alike.                             *)
(***************************************************************************)
EXTENDS Integers, Sequences

CONSTANTS
    IntMod,       \* int has the values -IntMod/2 .. IntMod/2 - 1
    LongMax,      \* LONG_MAX, and LONG_MIN is -LongMax - 1
    ExtrasInit    \* EXTRAS_INIT, by which the array of extras grows

ASSUME WidthAssumption ==
    /\ IntMod \in Nat \ {0}
    /\ IntMod % 2 = 0
    /\ LongMax \in Nat
    /\ LongMax >= IntMod
ASSUME ExtrasAssumption == ExtrasInit \in Nat \ {0}

Word(w) == [word |-> w, n |-> 0]
Number(n) == [word |-> "number", n |-> n]
NoValue == Word("")

(* "-abc", "--name" or "--name=value", "value", "-" and "--" *)
Short(letters) == [kind |-> "short", letters |-> letters, name |-> "", value |-> NoValue]
Long(name, value) == [kind |-> "long", letters |-> <<>>, name |-> name, value |-> value]
Extra(value) == [kind |-> "word", letters |-> <<>>, name |-> "", value |-> value]
Dash == [kind |-> "dash", letters |-> <<>>, name |-> "", value |-> NoValue]
DoubleDash == [kind |-> "ddash", letters |-> <<>>, name |-> "", value |-> NoValue]

(* Arguments as these make them; a cluster has a letter *)
ArgumentOK(a) ==
    /\ a.kind \in {"short", "long", "word", "dash", "ddash"}
    /\ a.kind = "ddash" => a = DoubleDash
    /\ Len(a.letters) \in Nat
    /\ a.kind = "short" => Len(a.letters) > 0
    /\ a.value.n \in Int
    /\ a.value.word = "" => a.value = NoValue

(* options[]: every option has a long name and a letter *)
options == {[longArg |-> "set-tq", shortArg |-> "T", type |-> "int"],
            [longArg |-> "anti-thrash", shortArg |-> "S", type |-> "string"],
            [longArg |-> "help", shortArg |-> "h", type |-> "bool"]}

(* SimpleConfig before main() parses.  Its help, which main() does not        *)
(* initialise, only decides whether the usage text is printed, and is left   *)
(* out.                                                                      *)
Config0 == [tq |-> 0, status |-> ""]

(* strtol() saturates *)
strtol(n) == CASE n > LongMax      -> LongMax
               [] n < -LongMax - 1 -> -LongMax - 1
               [] OTHER            -> n

(* The conversion of a long to int keeps the low bits *)
ToInt(n) == ((n + IntMod \div 2) % IntMod) - (IntMod \div 2)

xopt_get_size(token) ==
    CASE token.kind = "word"              -> 0
      [] token.kind \in {"short", "dash"} -> 1
      [] token.kind \in {"long", "ddash"} -> 2

(* Does the option take a value? *)
xopt_get_arg(option) == option.type # "bool"

-----------------------------------------------------------------------------
(* The parser's state: argi is the argument in hand, letter how many letters *)
(* of it are done, capac the capacity of the array of extras, overrun whether*)
(* an element past it was written, err whether an error was set, which ends  *)
(* the parsing by longjmp().                                                 *)
Start == [argi |-> 1, letter |-> 0, config |-> Config0, doubledash |-> FALSE, extras |-> 0,
          capac |-> ExtrasInit, overrun |-> FALSE, err |-> FALSE]

xopt_set_err(s) == [s EXCEPT !.err = TRUE]

(* xopt_set() with the default callback *)
xopt_set(s, option, value) ==
    CASE option.type = "bool" \/ value.word = "" -> s
      [] option.type = "string" /\ value.word # "" ->
            [s EXCEPT !.config.status = value.word]
      [] option.type = "int" /\ value.word = "number" ->
            [s EXCEPT !.config.tq = ToInt(strtol(value.n))]
      [] OTHER -> xopt_set_err(s)

(* Wrong variant: the next argument is the value whatever it looks like *)
NextValueAny(argv, s) == s.argi + 1 <= Len(argv)

(* The next argument exists and is not an option *)
NextValue(argv, s) == s.argi + 1 <= Len(argv) /\ xopt_get_size(argv[s.argi + 1]) = 0

(* One letter of a cluster, with `left' letters behind it *)
ParseLetter(argv, s, letter, left) ==
    LET found == {o \in options : o.shortArg = letter}
        option == CHOOSE o \in found : TRUE
    IN CASE found = {} -> xopt_set_err(s)
         [] found # {} /\ ~xopt_get_arg(option) -> xopt_set(s, option, NoValue)
         [] found # {} /\ xopt_get_arg(option) ->
               IF left > 0 \/ ~NextValue(argv, s)
               THEN xopt_set_err(s)
               ELSE xopt_set([s EXCEPT !.argi = @ + 1], option, argv[s.argi + 1].value)

ParseLong(s, token) ==
    LET found == {o \in options : o.longArg = token.name}
        option == CHOOSE o \in found : TRUE
    IN IF found = {} \/ (xopt_get_arg(option) <=> token.value.word = "")
       THEN xopt_set_err(s)
       ELSE xopt_set(s, option, token.value)

(* Wrong variant: makes room when it is too late *)
assert_increment_late(s) ==
    [s EXCEPT !.capac = IF s.extras > @ THEN @ + ExtrasInit ELSE @]

xopt_assert_increment(s) ==
    [s EXCEPT !.capac = IF s.extras = @ THEN @ + ExtrasInit ELSE @]

(* The element s.extras of the array is written *)
WriteExtra(s) == [s EXCEPT !.overrun = @ \/ s.extras >= s.capac]

AddExtra(s) ==
    LET r == WriteExtra(xopt_assert_increment(s)) IN [r EXCEPT !.extras = @ + 1]

(* XOPT_CTX_POSIXMEHARDER *)
AcceptOption(s) == IF ~s.err /\ s.extras > 0 THEN xopt_set_err(s) ELSE s

NextArgument(s) == [s EXCEPT !.argi = @ + 1, !.letter = 0]

(* The loop over the letters of a cluster, one of them *)
ParseShort(argv, s) ==
    LET letters == argv[s.argi].letters
        k == s.letter + 1
        r == ParseLetter(argv, s, letters[k], Len(letters) - k)
    IN IF k < Len(letters) /\ ~r.err
       THEN [r EXCEPT !.letter = k]
       ELSE NextArgument(AcceptOption(r))

xopt_parse_arg(argv, s) ==
    LET token == argv[s.argi]
    IN CASE s.doubledash \/ token.kind \in {"dash", "word"} -> NextArgument(AddExtra(s))
         [] ~s.doubledash /\ token.kind = "ddash" -> NextArgument([s EXCEPT !.doubledash = TRUE])
         [] ~s.doubledash /\ token.kind = "short" -> ParseShort(argv, s)
         [] ~s.doubledash /\ token.kind = "long" -> NextArgument(AcceptOption(ParseLong(s, token)))

(* The loop over argv: an iteration takes one argument or an option with its *)
(* value, and an error leaves the loop.                                      *)
xopt_done(argv, s) == s.err \/ s.argi > Len(argv)

(* After the loop the extras get their terminator *)
xopt_parse_end(s) == IF s.err THEN s ELSE WriteExtra(xopt_assert_increment(s))

-----------------------------------------------------------------------------
(* What a command line means, said of its positions instead of by a loop *)

(* The position of the first "--", or one past the end *)
EndOfOptions(argv) ==
    CHOOSE k \in 1 .. Len(argv) + 1 :
        /\ k = Len(argv) + 1 \/ argv[k] = DoubleDash
        /\ \A j \in 1 .. k - 1 : argv[j] # DoubleDash

TakesValue(letter) == letter \in {"T", "S"}

(* The word at i is the value of the cluster before it *)
IsValue(argv, i) ==
    /\ i \in 2 .. Len(argv)
    /\ argv[i].kind = "word"
    /\ i - 1 < EndOfOptions(argv)
    /\ argv[i - 1].kind = "short"
    /\ TakesValue(argv[i - 1].letters[Len(argv[i - 1].letters)])

IsOption(argv, i) == i < EndOfOptions(argv) /\ argv[i].kind \in {"short", "long"}

IsExtra(argv, i) ==
    IF i < EndOfOptions(argv)
    THEN argv[i].kind = "dash" \/ (argv[i].kind = "word" /\ ~IsValue(argv, i))
    ELSE i > EndOfOptions(argv)

(* The option `letter', alias `name', is given the value v at position i *)
Gives(argv, i, letter, name, v) ==
    /\ IsOption(argv, i)
    /\ \/ argv[i].kind = "long" /\ argv[i].name = name /\ v = argv[i].value
       \/ /\ argv[i].kind = "short"
          /\ argv[i].letters[Len(argv[i].letters)] = letter
          /\ IsValue(argv, i + 1)
          /\ v = argv[i + 1].value

Values(argv) == {argv[j].value : j \in 1 .. Len(argv)}

(* The option at i comes before every extra, it exists, and it has a value   *)
(* exactly if it takes one, a number or nothing for the TQ                   *)
OptionOK(argv, i) ==
    LET a == argv[i]
    IN /\ ~\E j \in 1 .. i - 1 : IsExtra(argv, j)
       /\ a.kind = "short" =>
             \A k \in 1 .. Len(a.letters) :
                 \/ a.letters[k] = "h"
                 \/ TakesValue(a.letters[k]) /\ k = Len(a.letters) /\ IsValue(argv, i + 1)
       /\ a.kind = "long" =>
             \/ a.name = "help" /\ a.value = NoValue
             \/ a.name \in {"set-tq", "anti-thrash"} /\ a.value # NoValue
       /\ \A v \in Values(argv) : Gives(argv, i, "T", "set-tq", v) => v.word \in {"number", ""}

WellFormed(argv) == \A i \in 1 .. Len(argv) : IsOption(argv, i) => OptionOK(argv, i)

(* The last value given, empty ones aside *)
LastGiven(argv, letter, name) ==
    LET Given(i) == \E v \in Values(argv) : v # NoValue /\ Gives(argv, i, letter, name, v)
        given == {i \in 1 .. Len(argv) : Given(i)}
        last == CHOOSE i \in given : \A j \in given : j <= i
    IN IF given = {} THEN NoValue
       ELSE CHOOSE v \in Values(argv) : Gives(argv, last, letter, name, v)
=============================================================================
