-------------------------- MODULE NvsharectlProofs --------------------------
(***************************************************************************)
(* Proofs about nvsharectl, its command line and its connections, for any  *)
(* widths of int, long and struct message, any socket buffer that holds a  *)
(* message, any number of connections and any command lines: the parser    *)
(* stays inside its arrays and reads what the line means, messages stay    *)
(* framed however the bytes are cut, and the TQ stays positive.            *)
(***************************************************************************)
EXTENDS Nvsharectl, SequenceTheorems, WellFoundedInduction, TLAPS

(* The arguments somebody may give, and the words in them *)
Arguments == UNION {Range(args) : args \in FirstArgvs \cup LaterArgvs}
Texts == {""} \cup {a.value.word : a \in Arguments}

(* What the parser has is an int, and its extras fit *)
Parsers ==
    [argi : Nat, letter : Nat, config : [tq : Ints, status : Texts], doubledash : BOOLEAN,
     extras : Nat, capac : Nat, overrun : BOOLEAN, err : BOOLEAN]

ParserOK(args, s) ==
    /\ s \in Parsers
    /\ s.overrun = FALSE /\ s.extras <= s.capac
    /\ s.argi \in 1 .. Len(args) + 1
    /\ s.err = FALSE /\ s.letter > 0 =>
          /\ s.argi <= Len(args) /\ args[s.argi].kind = "short" /\ s.doubledash = FALSE
          /\ s.letter < Len(args[s.argi].letters)

-----------------------------------------------------------------------------
(* Arithmetic *)

LEMMA DivMod ==
    ASSUME NEW m \in Nat \ {0}, NEW a \in Int
    PROVE  a = m * (a \div m) + (a % m) /\ a % m \in 0 .. m - 1 /\ a \div m \in Int
OBVIOUS

LEMMA ModUnique ==
    ASSUME NEW m \in Nat \ {0}, NEW a \in Int, NEW q \in Int, NEW r \in 0 .. m - 1, a = m * q + r
    PROVE  a % m = r
OBVIOUS

LEMMA ModAdd ==
    ASSUME NEW m \in Nat \ {0}, NEW a \in Int, NEW b \in Int, a % m = 0
    PROVE  (a + b) % m = b % m
<1>1. a = m * (a \div m) + 0 /\ a \div m \in Int
  BY DivMod
<1>2. b = m * (b \div m) + (b % m) /\ b % m \in 0 .. m - 1 /\ b \div m \in Int
  BY DivMod
<1> DEFINE x == a \div m
           y == b \div m
           r == b % m
<1>3. x \in Int /\ y \in Int /\ r \in 0 .. m - 1 /\ a = m * x /\ b = m * y + r
  BY <1>1, <1>2
<1> HIDE DEF x, y
<1>4. a + b = m * (x + y) + r
  BY <1>3
<1>5. x + y \in Int /\ a + b \in Int
  BY <1>3
<1>6. QED
  BY <1>3, <1>4, <1>5, ModUnique

LEMMA ToIntFacts ==
    /\ \A n \in Int : ToInt(n) \in Ints
    /\ \A n \in Ints : ToInt(n) = n
<1> DEFINE h == IntMod \div 2
<1>1. IntMod \in Nat \ {0} /\ h \in Nat /\ IntMod = 2 * h
  BY WidthAssumption
<1> HIDE DEF h
<1>2. Ints = -h .. h - 1
  BY DEF Ints, h
<1>3. ASSUME NEW n \in Int PROVE ToInt(n) \in Ints
  <2>1. (n + h) % IntMod \in 0 .. IntMod - 1
    BY <1>1, DivMod
  <2>2. ToInt(n) = ((n + h) % IntMod) - h
    BY DEF ToInt, h
  <2>3. QED
    BY <1>1, <1>2, <2>1, <2>2
<1>4. ASSUME NEW n \in Ints PROVE ToInt(n) = n
  <2>1. n \in Int /\ n + h \in 0 .. IntMod - 1
    BY <1>1, <1>2
  <2>2. n + h = IntMod * 0 + (n + h)
    BY <1>1, <2>1
  <2>3. (n + h) % IntMod = n + h
    BY <1>1, <2>1, <2>2, ModUnique
  <2>4. ToInt(n) = ((n + h) % IntMod) - h
    BY DEF ToInt, h
  <2>5. QED
    BY <1>1, <2>1, <2>3, <2>4
<1>5. QED
  BY <1>3, <1>4

-----------------------------------------------------------------------------
(* xopt_parse() *)

LEMMA ArgumentsOK ==
    /\ \A a \in Arguments : ArgumentOK(a) /\ a.value.word \in Texts /\ a.value.n \in Int
    /\ \A args \in FirstArgvs \cup LaterArgvs : args \in Seq(Arguments)
<1>1. ASSUME NEW a \in Arguments PROVE ArgumentOK(a) /\ a.value.word \in Texts /\ a.value.n \in Int
  <2>1. ArgumentOK(a)
    BY ArgvsAssumption DEF Arguments
  <2>2. QED
    BY <2>1 DEF ArgumentOK, Texts
<1>2. ASSUME NEW args \in FirstArgvs \cup LaterArgvs PROVE args \in Seq(Arguments)
  <2>1. args \in Seq(Range(args)) /\ Range(args) \subseteq Arguments
    BY ArgvsAssumption DEF Arguments
  <2>2. QED
    BY <2>1, SeqMonotonic
<1>3. QED
  BY <1>1, <1>2

(* The parts of a parser's state that do not change together *)
LEMMA SetErrOK ==
    ASSUME NEW s \in Parsers
    PROVE  /\ xopt_set_err(s) \in Parsers
           /\ xopt_set_err(s).err = TRUE
           /\ xopt_set_err(s).argi = s.argi /\ xopt_set_err(s).letter = s.letter
           /\ xopt_set_err(s).extras = s.extras /\ xopt_set_err(s).capac = s.capac
           /\ xopt_set_err(s).overrun = s.overrun /\ xopt_set_err(s).doubledash = s.doubledash
BY DEF xopt_set_err, Parsers

(* From s to r only the configuration and the error may change *)
OnlySets(s, r) ==
    /\ r \in Parsers
    /\ r.argi = s.argi /\ r.letter = s.letter /\ r.extras = s.extras
    /\ r.capac = s.capac /\ r.overrun = s.overrun /\ r.doubledash = s.doubledash

LEMMA SetOK ==
    ASSUME NEW s \in Parsers, NEW option \in options, NEW value,
           value.word \in Texts, value.n \in Int
    PROVE  OnlySets(s, xopt_set(s, option, value))
<1> DEFINE r == xopt_set(s, option, value)
<1>1. strtol(value.n) \in Int
  BY WidthAssumption DEF strtol
<1>2. ToInt(strtol(value.n)) \in Ints
  BY <1>1, ToIntFacts
<1>3. option.type \in {"bool", "string", "int"}
  BY DEF options
<1>4. CASE option.type = "bool" \/ value.word = ""
  BY <1>4 DEF xopt_set, OnlySets
<1>5. CASE option.type = "string" /\ value.word # ""
  <2>1. r = [s EXCEPT !.config.status = value.word]
    BY <1>5 DEF xopt_set
  <2> HIDE DEF r
  <2>2. OnlySets(s, r)
    BY <2>1 DEF Parsers, OnlySets
  <2>3. QED
    BY <2>2 DEF r
<1>6. CASE option.type = "int" /\ value.word = "number"
  <2> DEFINE n == ToInt(strtol(value.n))
  <2>1. r = [s EXCEPT !.config.tq = n]
    BY <1>6 DEF xopt_set
  <2> HIDE DEF r, n
  <2>2. n \in Ints
    BY <1>2 DEF n
  <2>3. OnlySets(s, r)
    BY <2>1, <2>2 DEF Parsers, OnlySets
  <2>4. QED
    BY <2>3 DEF r
<1>7. CASE option.type = "int" /\ value.word \notin {"", "number"}
  <2>1. r = xopt_set_err(s)
    BY <1>7 DEF xopt_set
  <2>2. QED
    BY <2>1, SetErrOK DEF OnlySets
<1>8. QED
  BY <1>3, <1>4, <1>5, <1>6, <1>7

LEMMA NextArgumentOK ==
    ASSUME NEW s \in Parsers
    PROVE  LET r == NextArgument(s)
           IN /\ r \in Parsers
              /\ r.argi = s.argi + 1 /\ r.letter = 0 /\ r.extras = s.extras
              /\ r.capac = s.capac /\ r.overrun = s.overrun
<1> DEFINE t == [s EXCEPT !.argi = s.argi + 1]
<1>1. /\ t \in Parsers /\ t.argi = s.argi + 1 /\ t.extras = s.extras /\ t.capac = s.capac
      /\ t.overrun = s.overrun
  BY DEF Parsers
<1>2. NextArgument(s) = [t EXCEPT !.letter = 0]
  BY DEF NextArgument
<1> HIDE DEF t
<1>3. QED
  BY <1>1, <1>2 DEF Parsers

LEMMA AcceptOptionOK ==
    ASSUME NEW s \in Parsers
    PROVE  LET r == AcceptOption(s)
           IN /\ r \in Parsers
              /\ r.argi = s.argi /\ r.extras = s.extras
              /\ r.capac = s.capac /\ r.overrun = s.overrun
BY SetErrOK DEF AcceptOption

(* The array of extras is grown before it is written *)
LEMMA RoomForExtra ==
    ASSUME NEW s \in Parsers, s.overrun = FALSE, s.extras <= s.capac
    PROVE  LET r == WriteExtra(xopt_assert_increment(s))
           IN /\ r \in Parsers
              /\ r.overrun = FALSE /\ r.extras = s.extras /\ r.extras + 1 <= r.capac
              /\ r.argi = s.argi /\ r.letter = s.letter
<1> DEFINE r == xopt_assert_increment(s)
<1>1. /\ r \in Parsers /\ r.extras = s.extras /\ r.capac > r.extras
      /\ r.overrun = FALSE /\ r.argi = s.argi /\ r.letter = s.letter
  BY ExtrasAssumption DEF xopt_assert_increment, Parsers
<1> HIDE DEF r
<1>2. (r.overrun \/ r.extras >= r.capac) = FALSE
  <2>1. r.extras \in Nat /\ r.capac \in Nat
    BY <1>1 DEF Parsers
  <2>2. ~(r.extras >= r.capac)
    BY <1>1, <2>1
  <2>3. QED
    BY <1>1, <2>2
<1>3. WriteExtra(r) = [r EXCEPT !.overrun = FALSE]
  BY <1>2 DEF WriteExtra
<1>4. /\ WriteExtra(r) \in Parsers /\ WriteExtra(r).overrun = FALSE
      /\ WriteExtra(r).extras = s.extras /\ WriteExtra(r).extras + 1 <= WriteExtra(r).capac
      /\ WriteExtra(r).argi = s.argi /\ WriteExtra(r).letter = s.letter
  <2>1. [r EXCEPT !.overrun = FALSE] = r
    BY <1>1 DEF Parsers
  <2>2. WriteExtra(r) = r
    BY <1>3, <2>1
  <2>3. r.extras + 1 <= r.capac
    BY <1>1 DEF Parsers
  <2>4. QED
    BY <1>1, <2>2, <2>3
<1>5. QED
  BY <1>4 DEF r

LEMMA AddExtraOK ==
    ASSUME NEW s \in Parsers, s.overrun = FALSE, s.extras <= s.capac
    PROVE  LET r == AddExtra(s)
           IN r \in Parsers /\ r.overrun = FALSE /\ r.extras <= r.capac /\ r.argi = s.argi
<1> DEFINE r == WriteExtra(xopt_assert_increment(s))
<1>1. r \in Parsers /\ r.overrun = FALSE /\ r.extras + 1 <= r.capac /\ r.argi = s.argi
  BY RoomForExtra
<1>2. AddExtra(s) = [r EXCEPT !.extras = @ + 1]
  BY DEF AddExtra
<1> HIDE DEF r
<1>3. QED
  BY <1>1, <1>2 DEF Parsers

(* One letter leaves the extras alone, and takes an argument only if there   *)
(* is one                                                                    *)
LEMMA ParseLetterOK ==
    ASSUME NEW args \in Seq(Arguments), NEW s \in Parsers, s.argi \in 1 .. Len(args),
           NEW letter, NEW left \in Nat
    PROVE  LET r == ParseLetter(args, s, letter, left)
           IN /\ r \in Parsers
              /\ r.extras = s.extras /\ r.capac = s.capac /\ r.overrun = s.overrun
              /\ r.argi \in 1 .. Len(args)
              /\ left > 0 => r.argi = s.argi
              /\ r.letter = s.letter /\ r.doubledash = s.doubledash
<1> DEFINE found == {o \in options : o.shortArg = letter}
           option == CHOOSE o \in found : TRUE
           r == ParseLetter(args, s, letter, left)
<1>1. CASE found = {}
  <2>1. r = xopt_set_err(s)
    BY <1>1 DEF ParseLetter
  <2>2. QED
    BY <2>1, SetErrOK
<1>2. CASE found # {}
  <2>1. option \in options
    BY <1>2
  <2> HIDE DEF option
  <2>2. CASE ~xopt_get_arg(option)
    <3>1. r = xopt_set(s, option, NoValue)
      BY <1>2, <2>2 DEF ParseLetter, option
    <3>2. NoValue.word \in Texts /\ NoValue.n \in Int
      BY DEF NoValue, Word, Texts
    <3> DEFINE u == xopt_set(s, option, NoValue)
    <3>3. /\ u \in Parsers /\ u.argi = s.argi /\ u.letter = s.letter /\ u.extras = s.extras
          /\ u.capac = s.capac /\ u.overrun = s.overrun /\ u.doubledash = s.doubledash
      <4>1. OnlySets(s, u)
        BY <2>1, <3>2, SetOK
      <4>2. QED
        BY <4>1 DEF OnlySets
    <3> HIDE DEF u, r
    <3>4. r = u
      BY <3>1 DEF u
    <3>5. QED
      BY <3>3, <3>4 DEF r
  <2>3. CASE xopt_get_arg(option) /\ (left > 0 \/ ~NextValue(args, s))
    <3>1. r = xopt_set_err(s)
      BY <1>2, <2>3 DEF ParseLetter, option
    <3>2. QED
      BY <3>1, SetErrOK
  <2>4. CASE xopt_get_arg(option) /\ ~(left > 0 \/ ~NextValue(args, s))
    <3> DEFINE t == [s EXCEPT !.argi = @ + 1]
    <3>1. r = xopt_set(t, option, args[s.argi + 1].value)
      BY <1>2, <2>4 DEF ParseLetter, option
    <3>2. s.argi + 1 \in 1 .. Len(args)
      BY <2>4 DEF NextValue
    <3>3. args[s.argi + 1] \in Arguments
      BY <3>2, ElementOfSeq
    <3>4. args[s.argi + 1].value.word \in Texts /\ args[s.argi + 1].value.n \in Int
      BY <3>3, ArgumentsOK
    <3>5. /\ t \in Parsers /\ t.argi = s.argi + 1 /\ t.extras = s.extras /\ t.capac = s.capac
          /\ t.overrun = s.overrun /\ t.letter = s.letter /\ t.doubledash = s.doubledash
      BY DEF Parsers
    <3> DEFINE value == args[s.argi + 1].value
               u == xopt_set(t, option, value)
    <3> HIDE DEF t, value
    <3>9. value.word \in Texts /\ value.n \in Int
      BY <3>4 DEF value
    <3>6. /\ u \in Parsers /\ u.argi = t.argi /\ u.letter = t.letter /\ u.extras = t.extras
          /\ u.capac = t.capac /\ u.overrun = t.overrun /\ u.doubledash = t.doubledash
      <4>1. OnlySets(t, u)
        BY <2>1, <3>5, <3>9, SetOK
      <4> HIDE DEF u
      <4>2. QED
        BY <4>1 DEF OnlySets
    <3> HIDE DEF u, r
    <3>7. r = u
      BY <3>1 DEF u, value
    <3>8. QED
      BY <2>4, <3>2, <3>5, <3>6, <3>7 DEF r
  <2>5. QED
    BY <2>2, <2>3, <2>4
<1>3. QED
  BY <1>1, <1>2

LEMMA ParseLongOK ==
    ASSUME NEW s \in Parsers, NEW token \in Arguments
    PROVE  LET r == ParseLong(s, token)
           IN /\ r \in Parsers
              /\ r.extras = s.extras /\ r.capac = s.capac /\ r.overrun = s.overrun
              /\ r.argi = s.argi
<1> DEFINE found == {o \in options : o.longArg = token.name}
           option == CHOOSE o \in found : TRUE
           r == ParseLong(s, token)
<1>1. token.value.word \in Texts /\ token.value.n \in Int
  BY ArgumentsOK
<1>2. CASE found = {} \/ (xopt_get_arg(option) <=> token.value.word = "")
  <2>1. r = xopt_set_err(s)
    BY <1>2 DEF ParseLong
  <2>2. QED
    BY <2>1, SetErrOK
<1>3. CASE ~(found = {} \/ (xopt_get_arg(option) <=> token.value.word = ""))
  <2>1. option \in options
    BY <1>3
  <2>2. r = xopt_set(s, option, token.value)
    BY <1>3 DEF ParseLong
  <2> DEFINE u == xopt_set(s, option, token.value)
  <2> HIDE DEF option
  <2>3. /\ u \in Parsers /\ u.argi = s.argi /\ u.extras = s.extras
        /\ u.capac = s.capac /\ u.overrun = s.overrun
    <3>1. OnlySets(s, u)
      BY <1>1, <2>1, SetOK
    <3> HIDE DEF u
    <3>2. QED
      BY <3>1 DEF OnlySets
  <2> HIDE DEF u, r
  <2>4. r = u
    BY <2>2 DEF u
  <2>5. QED
    BY <2>3, <2>4 DEF r
<1>4. QED
  BY <1>2, <1>3

(* One step of the loop keeps the parser in its arrays *)
LEMMA ParseArgOK ==
    ASSUME NEW args \in Seq(Arguments), NEW s, ParserOK(args, s), ~xopt_done(args, s)
    PROVE  ParserOK(args, xopt_parse_arg(args, s))
<1> DEFINE token == args[s.argi]
           r == xopt_parse_arg(args, s)
<1>0. /\ s \in Parsers /\ s.overrun = FALSE /\ s.extras <= s.capac
      /\ s.argi \in 1 .. Len(args) /\ s.err = FALSE /\ Len(args) \in Nat
      /\ s.letter > 0 =>
            /\ token.kind = "short" /\ s.doubledash = FALSE /\ s.letter < Len(token.letters)
      /\ s.letter \in Nat /\ s.extras \in Nat /\ s.capac \in Nat
  BY LenProperties DEF ParserOK, xopt_done, Parsers
<1>1. token \in Arguments
  BY <1>0, ElementOfSeq
<1>2. ArgumentOK(token)
  BY <1>1, ArgumentsOK
<1>3. ASSUME NEW u \in Parsers, u.overrun = FALSE, u.extras <= u.capac, u.argi \in 1 .. Len(args),
             r = NextArgument(u)
      PROVE  ParserOK(args, r)
  <2>1. /\ r \in Parsers /\ r.argi = u.argi + 1 /\ r.letter = 0 /\ r.extras = u.extras
        /\ r.capac = u.capac /\ r.overrun = u.overrun
    BY <1>3, NextArgumentOK
  <2> HIDE DEF r
  <2>2. QED
    BY <1>0, <1>3, <2>1 DEF ParserOK
<1>4. CASE s.doubledash \/ token.kind \in {"dash", "word"}
  <2>1. r = NextArgument(AddExtra(s))
    BY <1>4 DEF xopt_parse_arg
  <2>2. /\ AddExtra(s) \in Parsers /\ AddExtra(s).overrun = FALSE
        /\ AddExtra(s).extras <= AddExtra(s).capac /\ AddExtra(s).argi = s.argi
    BY <1>0, AddExtraOK
  <2>3. QED
    BY <1>0, <1>3, <2>1, <2>2
<1>5. CASE ~s.doubledash /\ token.kind = "ddash"
  <2> DEFINE u == [s EXCEPT !.doubledash = TRUE]
  <2>1. r = NextArgument(u)
    BY <1>5 DEF xopt_parse_arg
  <2>2. u \in Parsers /\ u.overrun = FALSE /\ u.extras <= u.capac /\ u.argi \in 1 .. Len(args)
    BY <1>0 DEF Parsers
  <2> HIDE DEF u
  <2>3. QED
    BY <1>3, <2>1, <2>2
<1>6. CASE ~s.doubledash /\ token.kind = "long"
  <2> DEFINE v == ParseLong(s, token)
             u == AcceptOption(v)
  <2>1. r = NextArgument(u)
    BY <1>6 DEF xopt_parse_arg
  <2>2. /\ v \in Parsers /\ v.extras = s.extras /\ v.capac = s.capac
        /\ v.overrun = s.overrun /\ v.argi = s.argi
    BY <1>0, <1>1, ParseLongOK
  <2> HIDE DEF v
  <2>3. /\ u \in Parsers /\ u.extras = v.extras /\ u.capac = v.capac
        /\ u.overrun = v.overrun /\ u.argi = v.argi
    BY <2>2, AcceptOptionOK
  <2> HIDE DEF u
  <2>4. QED
    BY <1>0, <1>3, <2>1, <2>2, <2>3
<1>7. CASE ~s.doubledash /\ token.kind = "short"
  <2> DEFINE k == s.letter + 1
             left == Len(token.letters) - k
             letter == token.letters[k]
             v == ParseLetter(args, s, letter, left)
             u == AcceptOption(v)
  <2>1. Len(token.letters) \in Nat /\ left \in Nat /\ k \in Nat
    <3>1. Len(token.letters) \in Nat /\ Len(token.letters) > 0
      BY <1>2, <1>7 DEF ArgumentOK
    <3>2. s.letter \in Nat /\ s.letter < Len(token.letters)
      BY <1>0, <3>1
    <3>3. ASSUME NEW a \in Nat, NEW b \in Nat, a < b PROVE b - (a + 1) \in Nat /\ a + 1 \in Nat
      BY <3>3
    <3>4. QED
      BY <3>1, <3>2, <3>3
  <2>2. r = IF k < Len(token.letters) /\ ~v.err THEN [v EXCEPT !.letter = k] ELSE NextArgument(u)
    BY <1>7 DEF xopt_parse_arg, ParseShort
  <2> HIDE DEF left, letter
  <2>3. /\ v \in Parsers /\ v.extras = s.extras /\ v.capac = s.capac /\ v.overrun = s.overrun
        /\ v.argi \in 1 .. Len(args) /\ (left > 0 => v.argi = s.argi)
        /\ v.doubledash = s.doubledash
    BY <1>0, <2>1, ParseLetterOK
  <2> HIDE DEF v, r
  <2>4. CASE k < Len(token.letters) /\ ~v.err
    <3>1. left > 0 /\ v.argi = s.argi
      BY <2>1, <2>3, <2>4 DEF left
    <3>2. r = [v EXCEPT !.letter = k]
      BY <2>2, <2>4
    <3>3. /\ r \in Parsers /\ r.overrun = FALSE /\ r.extras <= r.capac /\ r.argi = s.argi
          /\ r.letter = k /\ r.doubledash = v.doubledash
      BY <1>0, <2>1, <2>3, <3>1, <3>2 DEF Parsers
    <3>4. s.doubledash = FALSE
      BY <1>0, <1>7 DEF Parsers
    <3>5. r.letter < Len(args[r.argi].letters) /\ args[r.argi].kind = "short"
      BY <1>7, <2>4, <3>3
    <3>6. ParserOK(args, r)
      BY <1>0, <2>3, <3>3, <3>4, <3>5 DEF ParserOK
    <3>7. QED
      BY <3>6 DEF r
  <2>5. CASE ~(k < Len(token.letters) /\ ~v.err)
    <3>1. r = NextArgument(u)
      BY <2>2, <2>5
    <3>2. /\ u \in Parsers /\ u.extras = v.extras /\ u.capac = v.capac
          /\ u.overrun = v.overrun /\ u.argi = v.argi
      BY <2>3, AcceptOptionOK
    <3> HIDE DEF u
    <3>3. u.overrun = FALSE /\ u.extras <= u.capac /\ u.argi \in 1 .. Len(args)
      BY <1>0, <2>3, <3>2
    <3>4. xopt_parse_arg(args, s) = NextArgument(u)
      BY <3>1 DEF r
    <3>5. QED
      BY <1>3, <3>2, <3>3, <3>4 DEF r
  <2>6. QED
    BY <2>4, <2>5 DEF r
<1>8. QED
  BY <1>2, <1>4, <1>5, <1>6, <1>7 DEF ArgumentOK

(* The parser starts in its arrays *)
LEMMA StartOK ==
    ASSUME NEW args \in Seq(Arguments)
    PROVE  ParserOK(args, Start)
<1>1. 0 \in Ints /\ "" \in Texts /\ Len(args) \in Nat
  BY WidthAssumption, LenProperties DEF Ints, Texts
<1>2. Start \in Parsers
  <2>1. Config0 \in [tq : Ints, status : Texts]
    BY <1>1 DEF Config0
  <2>2. QED
    BY <2>1, ExtrasAssumption DEF Start, Parsers
<1>3. /\ Start.overrun = FALSE /\ Start.extras = 0 /\ Start.capac = ExtrasInit
      /\ Start.argi = 1 /\ Start.letter = 0
  BY DEF Start
<1>4. 0 <= ExtrasInit /\ 1 \in 1 .. Len(args) + 1 /\ ~(0 > 0)
  <2>1. ASSUME NEW n \in Nat PROVE 1 \in 1 .. n + 1 /\ ~(0 > 0)
    BY <2>1
  <2>2. 0 <= ExtrasInit
    BY ExtrasAssumption
  <2>3. QED
    BY <1>1, <2>1, <2>2
<1> DEFINE s == Start
<1>5. /\ s \in Parsers /\ s.overrun = FALSE /\ s.extras <= s.capac
      /\ s.argi \in 1 .. Len(args) + 1 /\ ~(s.letter > 0)
  BY <1>2, <1>3, <1>4
<1> HIDE DEF s
<1>6. ParserOK(args, s)
  BY <1>5 DEF ParserOK
<1>7. QED
  BY <1>6 DEF s

(* The terminator fits too *)
LEMMA EndInBounds ==
    ASSUME NEW args, NEW s, ParserOK(args, s)
    PROVE  xopt_parse_end(s).overrun = FALSE
<1>1. CASE s.err
  BY <1>1 DEF xopt_parse_end, ParserOK
<1>2. CASE ~s.err
  <2>1. xopt_parse_end(s) = WriteExtra(xopt_assert_increment(s))
    BY <1>2 DEF xopt_parse_end
  <2>2. QED
    BY <2>1, RoomForExtra DEF ParserOK
<1>3. QED
  BY <1>1, <1>2

-----------------------------------------------------------------------------
(* Bytes *)

(* What is sent: a TQ is a positive int *)
CtlOut == {Status(TRUE), Status(FALSE)} \cup {SetTq(n) : n \in {i \in Ints : i > 0}}
Msgs == CtlOut \cup {ReqLock}
Bs == [msg : Msgs, k : 1 .. MsgLen]

(* A whole number of messages *)
Whole(q) == Aligned(q) /\ Len(q) % MsgLen = 0

LEMMA MsgLenMod ==
    /\ MsgLen \in Nat \ {0} /\ MsgLen % MsgLen = 0 /\ 0 % MsgLen = 0
    /\ \A k \in 1 .. MsgLen : k % MsgLen = 1 % MsgLen => k = 1
<1>1. MsgLen \in Nat \ {0}
  BY BytesAssumption
<1>2. MsgLen = MsgLen * 1 + 0 /\ 0 = MsgLen * 0 + 0 /\ 0 \in 0 .. MsgLen - 1
  BY <1>1
<1>3. MsgLen % MsgLen = 0 /\ 0 % MsgLen = 0
  BY <1>1, <1>2, ModUnique
<1>4. ASSUME NEW m \in Nat \ {0}, NEW k \in 1 .. m, k % m = 1 % m PROVE k = 1
  BY <1>4
<1>5. QED
  BY <1>1, <1>3, <1>4

LEMMA AlignedAt ==
    ASSUME NEW q \in Seq(Bs)
    PROVE  /\ Aligned(q) <=> \A i \in 1 .. Len(q) : /\ i % MsgLen = q[i].k % MsgLen
                                                    /\ q[i].k > 1 => q[i].msg = q[i - 1].msg
           /\ \A i \in 1 .. Len(q) : q[i] \in Bs /\ q[i].k \in 1 .. MsgLen
           /\ Len(q) \in Nat
<1>1. DOMAIN q = 1 .. Len(q) /\ Len(q) \in Nat
  BY LenProperties
<1>2. \A i \in 1 .. Len(q) : q[i] \in Bs
  BY ElementOfSeq
<1>3. \A i \in 1 .. Len(q) : q[i].k \in 1 .. MsgLen
  BY <1>2 DEF Bs
<1>4. QED
  BY <1>1, <1>2, <1>3 DEF Aligned

LEMMA AlignedPrefix ==
    ASSUME NEW p \in Seq(Bs), NEW q \in Seq(Bs), Aligned(p \o q)
    PROVE  Aligned(p)
<1> DEFINE r == p \o q
<1>1. /\ r \in Seq(Bs) /\ Len(r) = Len(p) + Len(q)
      /\ \A i \in 1 .. Len(p) + Len(q) : r[i] = IF i <= Len(p) THEN p[i] ELSE q[i - Len(p)]
  BY ConcatProperties
<1>2. Len(p) \in Nat /\ Len(q) \in Nat
  BY LenProperties
<1>3. \A i \in 1 .. Len(p) : i \in 1 .. Len(r) /\ r[i] = p[i]
  BY <1>1, <1>2
<1> HIDE DEF r
<1>4. Aligned(r)
  BY DEF r
<1>5. ASSUME NEW i \in 1 .. Len(p)
      PROVE  i % MsgLen = p[i].k % MsgLen /\ (p[i].k > 1 => p[i].msg = p[i - 1].msg)
  <2>1. i % MsgLen = p[i].k % MsgLen /\ (p[i].k > 1 => p[i].msg = r[i - 1].msg)
    BY <1>1, <1>3, <1>4, AlignedAt
  <2>2. CASE i > 1
    <3>1. i - 1 \in 1 .. Len(p)
      BY <1>2, <2>2
    <3>2. QED
      BY <1>3, <2>1, <3>1
  <2>3. CASE i = 1
    <3>1. p[1].k \in 1 .. MsgLen
      BY <2>3, AlignedAt
    <3>2. p[1].k = 1
      BY <2>1, <2>3, <3>1, MsgLenMod
    <3>3. QED
      BY <2>1, <2>3, <3>2
  <2>4. QED
    BY <1>2, <2>2, <2>3
<1>6. QED
  BY <1>5, AlignedAt

(* After whole messages a message begins *)
LEMMA AlignedAppend ==
    ASSUME NEW p \in Seq(Bs), NEW q \in Seq(Bs), Whole(p), Aligned(q)
    PROVE  Aligned(p \o q)
<1> DEFINE r == p \o q
<1>1. /\ r \in Seq(Bs) /\ Len(r) = Len(p) + Len(q)
      /\ \A i \in 1 .. Len(p) + Len(q) : r[i] = IF i <= Len(p) THEN p[i] ELSE q[i - Len(p)]
  BY ConcatProperties
<1>2. Len(p) \in Nat /\ Len(q) \in Nat
  BY LenProperties
<1>3. \A i \in 1 .. Len(p) : r[i] = p[i]
  BY <1>1, <1>2
<1>4. \A j \in 1 .. Len(q) : r[Len(p) + j] = q[j]
  BY <1>1, <1>2
<1> HIDE DEF r
<1>5. ASSUME NEW i \in 1 .. Len(r)
      PROVE  i % MsgLen = r[i].k % MsgLen /\ (r[i].k > 1 => r[i].msg = r[i - 1].msg)
  <2>1. CASE i <= Len(p)
    <3>1. i \in 1 .. Len(p)
      BY <2>1
    <3>2. i % MsgLen = p[i].k % MsgLen /\ (p[i].k > 1 => p[i].msg = p[i - 1].msg)
      BY <3>1, AlignedAt DEF Whole
    <3>3. CASE i > 1
      <4>1. i - 1 \in 1 .. Len(p)
        BY <1>2, <3>1, <3>3
      <4>2. QED
        BY <1>3, <3>1, <3>2, <4>1
    <3>4. CASE i = 1
      <4>1. p[1].k \in 1 .. MsgLen
        BY <3>1, <3>4, AlignedAt
      <4>2. p[1].k = 1
        BY <3>2, <3>4, <4>1, MsgLenMod
      <4>3. QED
        BY <1>3, <3>1, <3>2, <3>4, <4>2
    <3>5. QED
      BY <1>2, <3>1, <3>3, <3>4
  <2>2. CASE i > Len(p)
    <3> DEFINE j == i - Len(p)
    <3>1. j \in 1 .. Len(q) /\ i = Len(p) + j /\ j \in Int
      BY <1>1, <1>2, <2>2
    <3> HIDE DEF j
    <3>2. j % MsgLen = q[j].k % MsgLen /\ (q[j].k > 1 => q[j].msg = q[j - 1].msg)
      BY <3>1, AlignedAt
    <3>3. r[i] = q[j]
      BY <1>4, <3>1
    <3>4. i % MsgLen = j % MsgLen
      <4>1. Len(p) % MsgLen = 0 /\ Len(p) \in Int /\ MsgLen \in Nat \ {0}
        BY <1>2, MsgLenMod DEF Whole
      <4>2. (Len(p) + j) % MsgLen = j % MsgLen
        BY <3>1, <4>1, ModAdd
      <4>3. QED
        BY <3>1, <4>2
    <3>5. CASE j > 1
      <4>1. j - 1 \in 1 .. Len(q) /\ Len(p) + (j - 1) = i - 1
        BY <1>2, <3>1, <3>5
      <4>2. r[i - 1] = q[j - 1]
        BY <1>4, <4>1
      <4>3. QED
        BY <3>2, <3>3, <3>4, <4>2
    <3>6. CASE j = 1
      <4>1. q[1].k \in 1 .. MsgLen
        BY <3>1, <3>6, AlignedAt
      <4>2. q[1].k = 1
        BY <3>2, <3>6, <4>1, MsgLenMod
      <4>3. QED
        BY <3>2, <3>3, <3>4, <3>6, <4>2
    <3>7. QED
      BY <1>2, <3>1, <3>5, <3>6
  <2>3. QED
    BY <1>1, <1>2, <2>1, <2>2
<1>6. Aligned(r)
  BY <1>1, <1>5, AlignedAt
<1>7. QED
  BY <1>6 DEF r

(* Behind a message a message begins *)
LEMMA AlignedDrop ==
    ASSUME NEW q \in Seq(Bs), Aligned(q), Len(q) >= MsgLen
    PROVE  LET r == SubSeq(q, MsgLen + 1, Len(q))
           IN /\ r \in Seq(Bs) /\ Len(r) = Len(q) - MsgLen
              /\ Aligned(r) /\ (Whole(q) => Whole(r))
<1> DEFINE r == SubSeq(q, MsgLen + 1, Len(q))
<1>1. Len(q) \in Nat /\ MsgLen \in Nat /\ MsgLen > 0
  BY LenProperties, BytesAssumption
<1>2. \A i \in MsgLen + 1 .. Len(q) : q[i] \in Bs
  BY <1>1, ElementOfSeq
<1>3. /\ r \in Seq(Bs) /\ Len(r) = (IF MsgLen + 1 <= Len(q) THEN Len(q) - (MsgLen + 1) + 1 ELSE 0)
      /\ \A i \in 1 .. Len(q) - (MsgLen + 1) + 1 : r[i] = q[MsgLen + 1 + i - 1]
  BY <1>1, <1>2, SubSeqProperties
<1> HIDE DEF r
<1>4. Len(r) = Len(q) - MsgLen
  BY <1>1, <1>3
<1>5. \A i \in 1 .. Len(r) : MsgLen + i \in 1 .. Len(q) /\ r[i] = q[MsgLen + i]
  BY <1>1, <1>3, <1>4
<1>6. ASSUME NEW i \in 1 .. Len(r)
      PROVE  i % MsgLen = r[i].k % MsgLen /\ (r[i].k > 1 => r[i].msg = r[i - 1].msg)
  <2>1. (MsgLen + i) % MsgLen = i % MsgLen
    <3>1. MsgLen \in Nat \ {0} /\ MsgLen \in Int /\ i \in Int /\ MsgLen % MsgLen = 0
      BY <1>1, <1>4, MsgLenMod
    <3>2. QED
      BY <3>1, ModAdd
  <2>2. /\ (MsgLen + i) % MsgLen = r[i].k % MsgLen
        /\ r[i].k > 1 => r[i].msg = q[MsgLen + i - 1].msg
    <3> DEFINE j == MsgLen + i
    <3>1. j \in 1 .. Len(q) /\ r[i] = q[j]
      BY <1>5
    <3>5. j = MsgLen + i /\ j - 1 = MsgLen + i - 1
      BY <1>1, <1>4
    <3> HIDE DEF j
    <3>2. j % MsgLen = q[j].k % MsgLen /\ (q[j].k > 1 => q[j].msg = q[j - 1].msg)
      BY <3>1, AlignedAt
    <3>3. j % MsgLen = r[i].k % MsgLen /\ (r[i].k > 1 => r[i].msg = q[j - 1].msg)
      BY <3>1, <3>2
    <3>4. QED
      BY <3>3, <3>5
  <2>3. CASE i > 1
    <3>1. i - 1 \in 1 .. Len(r) /\ MsgLen + (i - 1) = MsgLen + i - 1
      BY <1>1, <1>4, <2>3
    <3>2. r[i - 1] = q[MsgLen + i - 1]
      BY <1>5, <3>1
    <3>3. QED
      BY <2>1, <2>2, <3>2
  <2>4. CASE i = 1
    <3>1. r[1].k \in 1 .. MsgLen
      BY <1>3, <2>4, AlignedAt
    <3>2. r[1].k = 1
      BY <2>1, <2>2, <2>4, <3>1, MsgLenMod
    <3>3. QED
      BY <2>1, <2>2, <2>4, <3>2
  <2>5. QED
    BY <1>1, <1>4, <2>3, <2>4
<1>7. Aligned(r)
  BY <1>3, <1>6, AlignedAt
<1>8. ASSUME Whole(q) PROVE Whole(r)
  <2>1. MsgLen \in Int /\ Len(r) \in Int /\ MsgLen + Len(r) = Len(q)
    BY <1>1, <1>4
  <2>2. (MsgLen + Len(r)) % MsgLen = Len(r) % MsgLen
    BY <2>1, ModAdd, MsgLenMod
  <2>3. QED
    BY <1>7, <1>8, <2>1, <2>2 DEF Whole
<1>9. QED
  BY <1>3, <1>4, <1>7, <1>8 DEF r

LEMMA BytesOK ==
    ASSUME NEW m \in Msgs
    PROVE  Bytes(m) \in Seq(Bs) /\ Len(Bytes(m)) = MsgLen /\ Whole(Bytes(m))
<1> DEFINE b == Bytes(m)
<1>1. MsgLen \in Nat
  BY BytesAssumption
<1>2. b \in [1 .. MsgLen -> Bs]
  BY DEF Bytes, Bs
<1>3. b \in Seq(Bs) /\ Len(b) = MsgLen
  BY <1>1, <1>2
<1>4. \A k \in 1 .. MsgLen : b[k].k = k /\ b[k].msg = m
  BY DEF Bytes
<1> HIDE DEF b
<1>5. ASSUME NEW i \in 1 .. Len(b)
      PROVE  i % MsgLen = b[i].k % MsgLen /\ (b[i].k > 1 => b[i].msg = b[i - 1].msg)
  BY <1>1, <1>3, <1>4
<1>6. Whole(b)
  BY <1>3, <1>5, AlignedAt, MsgLenMod DEF Whole
<1>7. QED
  BY <1>3, <1>6 DEF b

-----------------------------------------------------------------------------
(* The inductive invariant *)

StreamOK ==
    /\ up \in [Conns -> Seq(Bs)] /\ down \in [Conns -> Seq(Bs)]
    /\ \A c \in Conns : Len(up[c]) <= Cap /\ Len(down[c]) <= Cap
    /\ peer \in [Conns -> BOOLEAN]
    /\ server \in [Conns -> {"none", "backlog", "open"}]
    /\ server[App] # "backlog"

(* nvsharectl.  What it is going to send is a status or a positive TQ. *)
CtlOK ==
    /\ ctl \in {"parse", "connect", "write", "ended"}
    /\ argv \in Seq(Arguments) /\ ParserOK(argv, parser)
    /\ ctl # "parse" => parser = Start
    /\ todo \in Seq(CtlOut) /\ Len(todo) <= 2
    /\ at \in Conns /\ (ctl = "write" => at # App)
    /\ rest \in Seq(Bs) /\ Len(rest) <= MsgLen
    /\ runs \in 1 .. MaxRuns

SidesOK ==
    /\ scheduler_on \in BOOLEAN /\ tq \in Ints /\ tq >= 1
    /\ alive \in BOOLEAN /\ status_on \in BOOLEAN
    /\ got \in Seq(Bs) /\ Len(got) < MsgLen
    /\ rest_app \in Seq(Bs) /\ Len(rest_app) <= MsgLen

(* What a side has still to read, with what the other has still to write, is *)
(* a whole number of messages, until the scheduler closes the connection     *)
UpFramed ==
    /\ \A c \in Conns : server[c] # "none" => Aligned(up[c])
    /\ ctl = "write" /\ server[at] # "none" => Whole(up[at] \o rest)
    /\ alive /\ server[App] # "none" => Whole(up[App] \o rest_app)

DownFramed ==
    alive => /\ Aligned(got \o down[App])
             /\ server[App] = "open" => Whole(got \o down[App])

CInv == StreamOK /\ CtlOK /\ SidesOK /\ UpFramed /\ DownFramed

-----------------------------------------------------------------------------
(* Moving bytes *)

LEMMA Regroup ==
    ASSUME NEW x \in Seq(Bs), NEW y \in Seq(Bs), NEW z \in Seq(Bs)
    PROVE  (x \o y) \o z = x \o (y \o z)
BY ConcatAssociative

(* write_whole() moves bytes from the rest to the stream *)
LEMMA MoveBytes ==
    ASSUME NEW p \in Seq(Bs), NEW t \in Seq(Bs), NEW n \in 1 .. Len(t)
    PROVE  LET a == SubSeq(t, 1, n)
               b == SubSeq(t, n + 1, Len(t))
           IN /\ a \in Seq(Bs) /\ b \in Seq(Bs) /\ Len(a) = n /\ Len(b) = Len(t) - n
              /\ p \o a \in Seq(Bs) /\ Len(p \o a) = Len(p) + n
              /\ (p \o a) \o b = p \o t
<1> DEFINE a == SubSeq(t, 1, n)
           b == SubSeq(t, n + 1, Len(t))
<1>1. Len(t) \in Nat /\ n \in Nat /\ 1 <= n /\ n <= Len(t) /\ Len(p) \in Nat
  BY LenProperties
<1>2. (\A i \in 1 .. n : t[i] \in Bs) /\ (\A i \in n + 1 .. Len(t) : t[i] \in Bs)
  BY <1>1, ElementOfSeq
<1>3. a \in Seq(Bs) /\ Len(a) = n
  BY <1>1, <1>2, SubSeqProperties
<1>4. b \in Seq(Bs) /\ Len(b) = Len(t) - n
  <2>1. b \in Seq(Bs) /\ Len(b) = (IF n + 1 <= Len(t) THEN Len(t) - (n + 1) + 1 ELSE 0)
    BY <1>1, <1>2, SubSeqProperties
  <2> HIDE DEF b
  <2>2. QED
    BY <1>1, <2>1
<1>5. a \o b = SubSeq(t, 1, Len(t))
  <2>1. 1 \in 1 .. Len(t) + 1 /\ n \in 1 - 1 .. Len(t) /\ Len(t) \in n .. Len(t)
    BY <1>1
  <2>2. QED
    BY <2>1, ConcatAdjacentSubSeq
<1>6. SubSeq(t, 1, Len(t)) = t
  BY SubSeqFull
<1> HIDE DEF a, b
<1>7. (p \o a) \o b = p \o (a \o b)
  BY <1>3, <1>4, Regroup
<1>8. p \o a \in Seq(Bs) /\ Len(p \o a) = Len(p) + n
  <2>1. p \o a \in Seq(Bs) /\ Len(p \o a) = Len(p) + Len(a)
    BY <1>3, ConcatProperties
  <2>2. QED
    BY <1>3, <2>1
<1>9. (p \o a) \o b = p \o t
  BY <1>5, <1>6, <1>7
<1>10. QED
  BY <1>3, <1>4, <1>8, <1>9 DEF a, b

(* A message goes from the front of a stream, whatever is behind it *)
LEMMA DropMessage ==
    ASSUME NEW p \in Seq(Bs), NEW t \in Seq(Bs), Len(p) >= MsgLen
    PROVE  LET d == SubSeq(p, MsgLen + 1, Len(p))
           IN /\ d \in Seq(Bs) /\ Len(d) = Len(p) - MsgLen
              /\ Aligned(p) => Aligned(d)
              /\ Aligned(p \o t) => Aligned(d \o t)
              /\ Whole(p \o t) => Whole(d \o t)
<1> DEFINE d == SubSeq(p, MsgLen + 1, Len(p))
           q == p \o t
           r == SubSeq(q, MsgLen + 1, Len(q))
<1>1. Len(p) \in Nat /\ Len(t) \in Nat /\ MsgLen \in Nat /\ MsgLen > 0
  BY LenProperties, BytesAssumption
<1>2. \A i \in MsgLen + 1 .. Len(p) : p[i] \in Bs
  BY <1>1, ElementOfSeq
<1>3. /\ d \in Seq(Bs) /\ Len(d) = (IF MsgLen + 1 <= Len(p) THEN Len(p) - (MsgLen + 1) + 1 ELSE 0)
      /\ \A i \in 1 .. Len(p) - (MsgLen + 1) + 1 : d[i] = p[MsgLen + 1 + i - 1]
  BY <1>1, <1>2, SubSeqProperties
<1>4. /\ q \in Seq(Bs) /\ Len(q) = Len(p) + Len(t)
      /\ \A i \in 1 .. Len(p) + Len(t) : q[i] = IF i <= Len(p) THEN p[i] ELSE t[i - Len(p)]
  BY ConcatProperties
<1>5. ASSUME Aligned(p) PROVE Aligned(d)
  BY <1>5, AlignedDrop
<1>6. ASSUME Aligned(q) PROVE Aligned(d \o t) /\ (Whole(q) => Whole(d \o t))
  <2>1. Len(q) >= MsgLen
    BY <1>1, <1>4
  <2>2. /\ r \in Seq(Bs) /\ Len(r) = Len(q) - MsgLen
        /\ Aligned(r) /\ (Whole(q) => Whole(r))
    BY <1>4, <1>6, <2>1, AlignedDrop
  <2>3. \A i \in MsgLen + 1 .. Len(q) : q[i] \in Bs
    BY <1>1, <1>4, ElementOfSeq
  <2>4. \A i \in 1 .. Len(q) - (MsgLen + 1) + 1 : r[i] = q[MsgLen + 1 + i - 1]
    BY <1>1, <1>4, <2>3, SubSeqProperties
  <2> DEFINE e == d \o t
  <2> HIDE DEF q, r, d
  <2>5. /\ e \in Seq(Bs) /\ Len(e) = Len(d) + Len(t)
        /\ \A i \in 1 .. Len(d) + Len(t) : e[i] = IF i <= Len(d) THEN d[i] ELSE t[i - Len(d)]
    BY <1>3, ConcatProperties
  <2> HIDE DEF e
  <2>a. Len(r) \in Nat /\ Len(d) \in Nat
    BY <1>3, <2>2, LenProperties
  <2>b. Len(d) = Len(p) - MsgLen
    BY <1>1, <1>3
  <2>c. Len(e) = Len(r)
    BY <1>1, <1>4, <2>2, <2>5, <2>a, <2>b
  <2>6. Len(d) = Len(p) - MsgLen /\ Len(e) = Len(r) /\ Len(r) \in Nat /\ Len(d) \in Nat
    BY <2>a, <2>b, <2>c
  <2>7. ASSUME NEW i \in 1 .. Len(e) PROVE e[i] = r[i]
    <3>0. i \in Nat /\ 1 <= i /\ i <= Len(r)
      BY <2>6
    <3>1. r[i] = q[MsgLen + i]
      <4>1. i \in 1 .. Len(q) - (MsgLen + 1) + 1 /\ MsgLen + 1 + i - 1 = MsgLen + i
        BY <1>1, <1>4, <2>2, <3>0
      <4>2. QED
        BY <2>4, <4>1
    <3>2. CASE i <= Len(d)
      <4>0. i \in 1 .. Len(p) - (MsgLen + 1) + 1 /\ MsgLen + 1 + i - 1 = MsgLen + i
        BY <1>1, <2>6, <3>0, <3>2
      <4>1. e[i] = d[i] /\ d[i] = p[MsgLen + i]
        BY <1>1, <1>3, <2>5, <2>6, <3>2, <4>0
      <4>2. q[MsgLen + i] = p[MsgLen + i]
        BY <1>1, <1>4, <2>6, <3>2
      <4>3. QED
        BY <3>1, <4>1, <4>2
    <3>3. CASE i > Len(d)
      <4>1. e[i] = t[i - Len(d)]
        BY <1>1, <2>5, <2>6, <3>3
      <4>2. q[MsgLen + i] = t[(MsgLen + i) - Len(p)]
        <5>1. MsgLen + i \in 1 .. Len(p) + Len(t) /\ ~(MsgLen + i <= Len(p))
          BY <1>1, <1>4, <2>2, <2>6, <3>0, <3>3
        <5> DEFINE k == MsgLen + i
        <5>2. k \in 1 .. Len(p) + Len(t) /\ ~(k <= Len(p))
          BY <5>1
        <5> HIDE DEF k
        <5>3. q[k] = IF k <= Len(p) THEN p[k] ELSE t[k - Len(p)]
          BY <1>4, <5>2
        <5>4. q[k] = t[k - Len(p)]
          BY <5>2, <5>3
        <5>5. QED
          BY <5>4 DEF k
      <4>3. (MsgLen + i) - Len(p) = i - Len(d)
        BY <1>1, <2>6
      <4>4. QED
        BY <3>1, <4>1, <4>2, <4>3
    <3>4. QED
      BY <2>6, <3>2, <3>3
  <2>8. e = r
    BY <2>2, <2>5, <2>6, <2>7, SeqEqual
  <2>9. QED
    BY <2>2, <2>8 DEF e
<1> HIDE DEF d
<1>7. Len(d) = Len(p) - MsgLen
  BY <1>1, <1>3
<1>8. Whole(q) => Aligned(q)
  BY DEF Whole
<1>9. QED
  BY <1>3, <1>5, <1>6, <1>7, <1>8 DEF d

(* Behind whole messages a message is whole, or cut short *)
LEMMA AppendMessage ==
    ASSUME NEW p \in Seq(Bs), Whole(p), NEW m \in Msgs, NEW n \in 0 .. MsgLen
    PROVE  LET w == SubSeq(Bytes(m), 1, n)
           IN /\ w \in Seq(Bs) /\ Len(w) = n
              /\ Aligned(p \o w)
              /\ n = MsgLen => Whole(p \o w)
<1> DEFINE b == Bytes(m)
           w == SubSeq(b, 1, n)
           v == SubSeq(b, n + 1, Len(b))
<1>1. b \in Seq(Bs) /\ Len(b) = MsgLen /\ Whole(b) /\ MsgLen \in Nat /\ Len(p) \in Nat
  BY BytesOK, BytesAssumption, LenProperties
<1> HIDE DEF b
<1>2. (\A i \in 1 .. n : b[i] \in Bs) /\ (\A i \in n + 1 .. Len(b) : b[i] \in Bs)
  BY <1>1, ElementOfSeq
<1>3. w \in Seq(Bs) /\ Len(w) = (IF 1 <= n THEN n - 1 + 1 ELSE 0) /\ v \in Seq(Bs)
  BY <1>1, <1>2, SubSeqProperties
<1>4. w \o v = SubSeq(b, 1, Len(b))
  <2>1. 1 \in 1 .. Len(b) + 1 /\ n \in 1 - 1 .. Len(b) /\ Len(b) \in n .. Len(b)
    BY <1>1
  <2>2. QED
    BY <1>1, <2>1, ConcatAdjacentSubSeq
<1>5. SubSeq(b, 1, Len(b)) = b
  BY <1>1, SubSeqFull
<1>6. n = MsgLen => w = b
  BY <1>1, <1>5
<1> HIDE DEF w, v
<1>7. Len(w) = n
  BY <1>3
<1>8. Aligned(p \o b)
  BY <1>1, AlignedAppend DEF Whole
<1>9. (p \o w) \o v = p \o b /\ p \o w \in Seq(Bs)
  <2>1. (p \o w) \o v = p \o (w \o v)
    BY <1>3, ConcatAssociative
  <2>2. QED
    BY <1>3, <1>4, <1>5, <2>1, ConcatProperties
<1>10. Aligned(p \o w)
  BY <1>3, <1>8, <1>9, AlignedPrefix
<1>11. ASSUME n = MsgLen PROVE Whole(p \o w)
  <2>0. Len(p \o w) = Len(p) + Len(w)
    BY <1>3, ConcatProperties
  <2>1. Len(p \o w) = Len(p) + MsgLen
    BY <1>7, <1>11, <2>0
  <2>2. Len(p) \in Int /\ MsgLen \in Int /\ Len(p) % MsgLen = 0 /\ MsgLen \in Nat \ {0}
    BY <1>1, MsgLenMod DEF Whole
  <2>3. (Len(p) + MsgLen) % MsgLen = MsgLen % MsgLen
    BY <2>2, ModAdd
  <2>4. QED
    BY <1>10, <2>1, <2>3, MsgLenMod DEF Whole
<1>12. QED
  BY <1>3, <1>7, <1>10, <1>11 DEF w, b

LEMMA EmptyOK ==
    /\ <<>> \in Seq(Bs) /\ Len(<<>>) = 0 /\ Aligned(<<>>) /\ Whole(<<>>)
    /\ \A q \in Seq(Bs) : <<>> \o q = q /\ q \o <<>> = q
<1>1. <<>> \in Seq(Bs) /\ Len(<<>>) = 0
  BY EmptySeq
<1>2. Aligned(<<>>)
  <2>1. \A i \in DOMAIN <<>> : FALSE
    OBVIOUS
  <2>2. QED
    BY <2>1 DEF Aligned
<1>3. QED
  BY <1>1, <1>2, MsgLenMod, ConcatEmptySeq DEF Whole

LEMMA WholeAppend ==
    ASSUME NEW p \in Seq(Bs), NEW q \in Seq(Bs), Whole(p), Whole(q)
    PROVE  Whole(p \o q)
<1>1. Aligned(p \o q)
  BY AlignedAppend DEF Whole
<1>2. Len(p \o q) = Len(p) + Len(q)
  BY ConcatProperties
<1>3. Len(p) \in Int /\ Len(q) \in Int /\ Len(p) % MsgLen = 0 /\ MsgLen \in Nat \ {0}
  BY LenProperties, MsgLenMod DEF Whole
<1>4. (Len(p) + Len(q)) % MsgLen = Len(q) % MsgLen
  BY <1>3, ModAdd
<1>5. QED
  BY <1>1, <1>2, <1>4 DEF Whole

-----------------------------------------------------------------------------
(* What main() sends *)

LEMMA MessagesOK ==
    ASSUME NEW p, p.config.tq \in Ints
    PROVE  CtlMessages(p) \in Seq(CtlOut) /\ Len(CtlMessages(p)) <= 2
<1> DEFINE a == IF p.config.status = "" THEN <<>> ELSE <<Status(p.config.status = "on")>>
           b == IF TqInRange(p.config.tq) THEN <<SetTq(p.config.tq)>> ELSE <<>>
<1>0. <<>> \in Seq(CtlOut) /\ Len(<<>>) = 0
  BY EmptySeq
<1>1. a \in Seq(CtlOut) /\ Len(a) \in 0 .. 1
  <2>1. \A m \in CtlOut : <<m>> \in Seq(CtlOut) /\ Len(<<m>>) = 1
    OBVIOUS
  <2>2. Status(p.config.status = "on") \in CtlOut
    BY DEF CtlOut, Status
  <2>3. CASE p.config.status = ""
    <3>1. a = <<>>
      BY <2>3
    <3> HIDE DEF a
    <3>2. QED
      BY <1>0, <3>1
  <2>4. CASE p.config.status # ""
    <3>1. a = <<Status(p.config.status = "on")>>
      BY <2>4
    <3> HIDE DEF a
    <3>2. a \in Seq(CtlOut) /\ Len(a) = 1
      BY <2>1, <2>2, <3>1
    <3>3. QED
      BY <3>2
  <2>5. QED
    BY <2>3, <2>4
<1>2. b \in Seq(CtlOut) /\ Len(b) \in 0 .. 1
  <2>1. \A m \in CtlOut : <<m>> \in Seq(CtlOut) /\ Len(<<m>>) = 1
    OBVIOUS
  <2>2. TqInRange(p.config.tq) => SetTq(p.config.tq) \in CtlOut
    BY DEF TqInRange, CtlOut
  <2>3. QED
    BY <1>0, <2>1, <2>2
<1>3. CtlMessages(p) = <<>> \/ CtlMessages(p) = a \o b
  BY DEF CtlMessages
<1> HIDE DEF a, b
<1>4. a \o b \in Seq(CtlOut) /\ Len(a \o b) = Len(a) + Len(b)
  BY <1>1, <1>2, ConcatProperties
<1>5. Len(a \o b) <= 2
  <2>1. \A i, j \in 0 .. 1 : i + j <= 2
    OBVIOUS
  <2>2. QED
    BY <1>1, <1>2, <1>4, <2>1
<1>6. CASE CtlMessages(p) = <<>>
  <2>1. CtlMessages(p) \in Seq(CtlOut) /\ Len(CtlMessages(p)) = 0
    BY <1>0, <1>6
  <2>2. QED
    BY <2>1
<1>7. CASE CtlMessages(p) = a \o b
  BY <1>4, <1>5, <1>7
<1>8. QED
  BY <1>3, <1>6, <1>7

LEMMA EndConfig ==
    ASSUME NEW args, NEW s, ParserOK(args, s)
    PROVE  xopt_parse_end(s).config.tq \in Ints
<1>1. s \in Parsers /\ s.config.tq \in Ints
  BY DEF ParserOK, Parsers
<1>2. CASE s.err
  BY <1>1, <1>2 DEF xopt_parse_end
<1>3. CASE ~s.err
  <2>1. xopt_parse_end(s) = WriteExtra(xopt_assert_increment(s))
    BY <1>3 DEF xopt_parse_end
  <2>2. WriteExtra(xopt_assert_increment(s)) \in Parsers
    BY RoomForExtra DEF ParserOK
  <2> DEFINE e == WriteExtra(xopt_assert_increment(s))
  <2> HIDE DEF e
  <2>3. e.config.tq \in Ints
    BY <2>2 DEF Parsers, e
  <2>4. QED
    BY <2>1, <2>3 DEF e
<1>4. QED
  BY <1>2, <1>3

-----------------------------------------------------------------------------
LEMMA InitCInv == Init => CInv
<1> SUFFICES ASSUME Init PROVE CInv
  OBVIOUS
<1> USE DEF Init
<1>1. StreamOK
  <2>1. \A c \in Conns : up[c] = <<>> /\ down[c] = <<>>
    OBVIOUS
  <2>2. \A c \in Conns : Len(up[c]) <= Cap /\ Len(down[c]) <= Cap
    BY <2>1, EmptyOK, BytesAssumption
  <2>3. up \in [Conns -> Seq(Bs)] /\ down \in [Conns -> Seq(Bs)]
    BY EmptyOK
  <2>4. server \in [Conns -> {"none", "backlog", "open"}] /\ server[App] # "backlog"
    BY AppAssumption
  <2>5. QED
    BY <2>2, <2>3, <2>4 DEF StreamOK
<1>2. CtlOK
  <2>1. argv \in Seq(Arguments)
    BY ArgumentsOK
  <2>2. ParserOK(argv, parser)
    BY <2>1, StartOK
  <2>3. todo \in Seq(CtlOut) /\ Len(todo) <= 2
    BY EmptySeq
  <2>4. rest \in Seq(Bs) /\ Len(rest) <= MsgLen
    BY EmptyOK, BytesAssumption
  <2>5. QED
    BY <2>1, <2>2, <2>3, <2>4, AppAssumption, RunsAssumption DEF CtlOK
<1>3. SidesOK
  <2>1. tq \in Ints /\ tq >= 1
    BY TqAssumption, WidthAssumption DEF Ints
  <2>2. got \in Seq(Bs) /\ Len(got) < MsgLen /\ rest_app \in Seq(Bs) /\ Len(rest_app) <= MsgLen
    BY EmptyOK, BytesAssumption
  <2>3. QED
    BY <2>1, <2>2 DEF SidesOK
<1>4. UpFramed
  BY EmptyOK, AppAssumption DEF UpFramed
<1>5. DownFramed
  BY EmptyOK, AppAssumption DEF DownFramed
<1>6. QED
  BY <1>1, <1>2, <1>3, <1>4, <1>5 DEF CInv

-----------------------------------------------------------------------------
(* The steps *)

LEMMA SameStreams ==
    ASSUME StreamOK, UNCHANGED streamVars
    PROVE  StreamOK'
BY DEF StreamOK, streamVars

LEMMA SameSides ==
    ASSUME SidesOK, UNCHANGED <<schedVars, appVars>>
    PROVE  SidesOK'
BY DEF SidesOK, schedVars, appVars

LEMMA SameCtl ==
    ASSUME CtlOK, UNCHANGED ctlVars
    PROVE  CtlOK'
BY DEF CtlOK, ctlVars

LEMMA SameDown ==
    ASSUME DownFramed, UNCHANGED <<down, server, appVars>>
    PROVE  DownFramed'
BY DEF DownFramed, appVars

(* nvsharectl, apart from its connection *)
LEMMA ParseStep ==
    ASSUME CInv, CtlParse
    PROVE  CInv'
<1>1. ParserOK(argv, parser')
  BY ParseArgOK DEF CInv, CtlOK, CtlParse
<1>2. CtlOK'
  BY <1>1 DEF CInv, CtlOK, CtlParse
<1>3. StreamOK' /\ SidesOK' /\ DownFramed'
  BY SameStreams, SameSides, SameDown DEF CInv, CtlParse, streamVars
<1>4. UpFramed'
  BY DEF CInv, CtlParse, UpFramed, streamVars, appVars
<1>5. QED
  BY <1>2, <1>3, <1>4 DEF CInv

LEMMA ParsedStep ==
    ASSUME CInv, CtlParsed
    PROVE  CInv'
<1>1. todo' \in Seq(CtlOut) /\ Len(todo') <= 2
  <2>1. xopt_parse_end(parser).config.tq \in Ints
    BY EndConfig DEF CInv, CtlOK
  <2>2. QED
    BY <2>1, MessagesOK DEF CtlParsed
<1>2. argv' \in Seq(Arguments) /\ ParserOK(argv', parser')
  <2>1. <<>> \in Seq(Arguments)
    BY EmptySeq
  <2>2. QED
    BY <2>1, StartOK DEF CtlParsed
<1>3. CtlOK'
  BY <1>1, <1>2 DEF CInv, CtlOK, CtlParsed
<1>4. StreamOK' /\ SidesOK' /\ DownFramed'
  BY SameStreams, SameSides, SameDown DEF CInv, CtlParsed, streamVars
<1>5. UpFramed'
  BY DEF CInv, CtlParsed, UpFramed, streamVars, appVars
<1>6. QED
  BY <1>3, <1>4, <1>5 DEF CInv

LEMMA EndStep ==
    ASSUME CInv, CtlEnd \/ CtlRefused
    PROVE  CInv'
<1>1. /\ ctl' = "ended" /\ ctl = "connect" /\ todo' \in {todo, <<>>}
      /\ UNCHANGED <<streamVars, argv, parser, rest, at, runs, schedVars, appVars>>
  BY DEF CtlEnd, CtlRefused
<1>2. CtlOK'
  <2>1. todo' \in Seq(CtlOut) /\ Len(todo') <= 2
    <3>1. <<>> \in Seq(CtlOut) /\ Len(<<>>) <= 2
      BY EmptySeq
    <3>2. QED
      BY <1>1, <3>1 DEF CInv, CtlOK
  <2>2. QED
    BY <1>1, <2>1 DEF CInv, CtlOK
<1>3. StreamOK' /\ SidesOK' /\ DownFramed'
  BY <1>1, SameStreams, SameSides, SameDown DEF CInv, streamVars
<1>4. UpFramed'
  BY <1>1 DEF CInv, UpFramed, streamVars, appVars
<1>5. QED
  BY <1>2, <1>3, <1>4 DEF CInv

LEMMA AgainStep ==
    ASSUME CInv, CtlAgain
    PROVE  CInv'
<1>1. argv' \in Seq(Arguments)
  BY ArgumentsOK DEF CtlAgain
<1>2. parser' = Start
  BY DEF CInv, CtlOK, CtlAgain
<1>3. ParserOK(argv', parser')
  BY <1>1, <1>2, StartOK
<1>4. runs' \in 1 .. MaxRuns
  BY RunsAssumption DEF CInv, CtlOK, CtlAgain
<1>5. CtlOK'
  BY <1>1, <1>2, <1>3, <1>4 DEF CInv, CtlOK, CtlAgain
<1>6. StreamOK' /\ SidesOK' /\ DownFramed'
  BY SameStreams, SameSides, SameDown DEF CInv, CtlAgain, streamVars
<1>7. UpFramed'
  BY DEF CInv, CtlAgain, UpFramed, streamVars, appVars
<1>8. QED
  BY <1>5, <1>6, <1>7 DEF CInv

(* The connection of nvsharectl *)
LEMMA ConnectStep ==
    ASSUME CInv, NEW c \in Ctls, CtlConnect(c)
    PROVE  CInv'
<1>1. c \in Conns /\ c # App
  BY DEF Ctls
<1>2. Head(todo) \in CtlOut /\ Tail(todo) \in Seq(CtlOut) /\ Len(Tail(todo)) <= 2
  <2>1. todo \in Seq(CtlOut) /\ todo # <<>> /\ Len(todo) <= 2 /\ Len(todo) \in Nat
    BY LenProperties DEF CInv, CtlOK, CtlConnect
  <2>2. Head(todo) \in CtlOut /\ Tail(todo) \in Seq(CtlOut) /\ Len(Tail(todo)) = Len(todo) - 1
    BY <2>1, HeadTailProperties
  <2>3. QED
    BY <2>1, <2>2
<1>3. rest' \in Seq(Bs) /\ Len(rest') = MsgLen /\ Whole(rest')
  BY <1>2, BytesOK DEF CtlConnect, Msgs
<1>4. StreamOK'
  <2>1. up' \in [Conns -> Seq(Bs)] /\ down' \in [Conns -> Seq(Bs)]
    BY <1>1, EmptyOK DEF CInv, StreamOK, CtlConnect, Connect
  <2>2. \A d \in Conns : Len(up'[d]) <= Cap /\ Len(down'[d]) <= Cap
    BY <1>1, EmptyOK, BytesAssumption DEF CInv, StreamOK, CtlConnect, Connect
  <2>3. QED
    BY <1>1, <2>1, <2>2, AppAssumption DEF CInv, StreamOK, CtlConnect, Connect
<1>5. CtlOK'
  <2>1. Len(rest') <= MsgLen
    BY <1>3, BytesAssumption
  <2>2. QED
    BY <1>1, <1>2, <1>3, <2>1 DEF CInv, CtlOK, CtlConnect
<1>6. SidesOK'
  BY SameSides DEF CInv, CtlConnect
<1>7. UpFramed'
  <2>1. up' = [up EXCEPT ![c] = <<>>] /\ server' = [server EXCEPT ![c] = "backlog"] /\ at' = c
    BY DEF CtlConnect, Connect
  <2>2. up'[c] = <<>> /\ \A d \in Conns \ {c} : up'[d] = up[d] /\ server'[d] = server[d]
    BY <1>1, <2>1 DEF CInv, StreamOK
  <2>3. \A d \in Conns : server'[d] # "none" => Aligned(up'[d])
    BY <2>2, EmptyOK DEF CInv, UpFramed
  <2>4. Whole(up'[at'] \o rest')
    <3>1. up'[at'] = <<>>
      BY <2>1, <2>2
    <3>2. <<>> \o rest' = rest'
      BY <1>3, EmptyOK
    <3>3. QED
      BY <1>3, <3>1, <3>2
  <2>5. alive' /\ server'[App] # "none" => Whole(up'[App] \o rest_app')
    BY <1>1, <2>2, AppAssumption DEF CInv, UpFramed, CtlConnect, appVars
  <2>6. QED
    BY <2>3, <2>4, <2>5 DEF UpFramed
<1>8. DownFramed'
  BY <1>1, AppAssumption DEF CInv, StreamOK, DownFramed, CtlConnect, Connect, appVars
<1>9. QED
  BY <1>4, <1>5, <1>6, <1>7, <1>8 DEF CInv

(* The end of a connection, at nvsharectl's side *)
LEMMA CloseStep ==
    ASSUME CInv, CtlClose \/ CtlDies
    PROVE  CInv'
<1>1. /\ ctl = "write" /\ PeerClose(at) /\ at' = App /\ ctl' \in {"connect", "ended"}
      /\ todo' \in {todo, <<>>} /\ rest' \in {rest, <<>>}
      /\ UNCHANGED <<argv, parser, runs, schedVars, appVars>>
  BY DEF CtlClose, CtlDies
<1>2. at \in Conns /\ at # App
  BY <1>1 DEF CInv, CtlOK
<1>3. CtlOK'
  <2>1. todo' \in Seq(CtlOut) /\ Len(todo') <= 2
    <3>1. <<>> \in Seq(CtlOut) /\ Len(<<>>) <= 2
      BY EmptySeq
    <3>2. QED
      BY <1>1, <3>1 DEF CInv, CtlOK
  <2>2. rest' \in Seq(Bs) /\ Len(rest') <= MsgLen
    <3>1. <<>> \in Seq(Bs) /\ Len(<<>>) <= MsgLen
      BY EmptyOK, BytesAssumption
    <3>2. QED
      BY <1>1, <3>1 DEF CInv, CtlOK
  <2>3. QED
    BY <1>1, <2>1, <2>2, AppAssumption DEF CInv, CtlOK
<1>4. StreamOK'
  <2>1. down' \in [Conns -> Seq(Bs)] /\ peer' \in [Conns -> BOOLEAN]
    BY <1>1, <1>2, EmptyOK DEF CInv, StreamOK, PeerClose
  <2>2. \A d \in Conns : Len(down'[d]) <= Cap
    BY <1>1, <1>2, EmptyOK, BytesAssumption DEF CInv, StreamOK, PeerClose
  <2>3. QED
    BY <1>1, <2>1, <2>2 DEF CInv, StreamOK, PeerClose
<1>5. SidesOK'
  BY <1>1, SameSides DEF CInv
<1>6. UpFramed'
  BY <1>1 DEF CInv, UpFramed, PeerClose, appVars
<1>7. DownFramed'
  BY <1>1, <1>2, AppAssumption DEF CInv, StreamOK, DownFramed, PeerClose, appVars
<1>8. QED
  BY <1>3, <1>4, <1>5, <1>6, <1>7 DEF CInv

(* Part of a message is written: what is written with what is not is as       *)
(* before                                                                     *)
LEMMA WriteBytes ==
    ASSUME StreamOK, NEW c \in Conns, NEW r \in Seq(Bs), NEW n, WriteSome(c, r, n)
    PROVE  LET s == SubSeq(r, n + 1, Len(r))
           IN /\ StreamOK'
              /\ s \in Seq(Bs) /\ Len(s) <= Len(r)
              /\ up'[c] \in Seq(Bs) /\ up'[c] \o s = up[c] \o r
              /\ \A d \in Conns \ {c} : up'[d] = up[d]
              /\ UNCHANGED <<down, peer, server>> /\ server[c] # "none"
<1> DEFINE a == SubSeq(r, 1, n)
           s == SubSeq(r, n + 1, Len(r))
<1>1. up[c] \in Seq(Bs) /\ n \in 1 .. Len(r)
  BY DEF StreamOK, WriteSome
<1>2. /\ a \in Seq(Bs) /\ s \in Seq(Bs) /\ Len(a) = n /\ Len(s) = Len(r) - n
      /\ up[c] \o a \in Seq(Bs) /\ Len(up[c] \o a) = Len(up[c]) + n
      /\ (up[c] \o a) \o s = up[c] \o r
  BY <1>1, MoveBytes
<1>3. /\ up' = [up EXCEPT ![c] = up[c] \o a] /\ UNCHANGED <<down, peer, server>>
      /\ server[c] # "none" /\ Len(up[c]) + n <= Cap
  BY DEF WriteSome
<1>4. Len(r) \in Nat /\ n \in Nat
  BY <1>1, LenProperties
<1> HIDE DEF a, s
<1>5. up'[c] = up[c] \o a /\ \A d \in Conns \ {c} : up'[d] = up[d]
  BY <1>3 DEF StreamOK
<1>6. StreamOK'
  <2>1. up' \in [Conns -> Seq(Bs)]
    BY <1>2, <1>3 DEF StreamOK
  <2>2. \A d \in Conns : Len(up'[d]) <= Cap
    BY <1>2, <1>3, <1>5 DEF StreamOK
  <2>3. QED
    BY <1>3, <2>1, <2>2 DEF StreamOK
<1>7. Len(s) <= Len(r)
  BY <1>2, <1>4
<1>8. QED
  BY <1>2, <1>3, <1>5, <1>6, <1>7 DEF s

LEMMA WriteStep ==
    ASSUME CInv, CtlWrite
    PROVE  CInv'
<1>1. PICK n \in 1 .. MsgLen : WriteSome(at, rest, n) /\ rest' = SubSeq(rest, n + 1, Len(rest))
  BY DEF CtlWrite
<1>2. at \in Conns /\ at # App /\ rest \in Seq(Bs) /\ ctl = "write" /\ Len(rest) <= MsgLen
  BY DEF CInv, CtlOK, CtlWrite
<1>3. /\ StreamOK'
      /\ rest' \in Seq(Bs) /\ Len(rest') <= Len(rest)
      /\ up'[at] \in Seq(Bs) /\ up'[at] \o rest' = up[at] \o rest
      /\ \A d \in Conns \ {at} : up'[d] = up[d]
      /\ UNCHANGED <<down, peer, server>> /\ server[at] # "none"
  BY <1>1, <1>2, WriteBytes DEF CInv
<1>4. CtlOK'
  <2>1. Len(rest') <= MsgLen
    BY <1>2, <1>3, LenProperties, BytesAssumption
  <2>2. QED
    BY <1>3, <2>1 DEF CInv, CtlOK, CtlWrite
<1>5. SidesOK' /\ DownFramed'
  BY <1>3, SameSides, SameDown DEF CInv, CtlWrite
<1>6. UpFramed'
  <2>1. Whole(up'[at] \o rest')
    BY <1>2, <1>3 DEF CInv, UpFramed
  <2>2. Aligned(up'[at])
    BY <1>3, <2>1, AlignedPrefix DEF Whole
  <2>3. \A d \in Conns : server'[d] # "none" => Aligned(up'[d])
    BY <1>3, <2>2 DEF CInv, UpFramed
  <2>4. alive' /\ server'[App] # "none" => Whole(up'[App] \o rest_app')
    BY <1>2, <1>3, AppAssumption DEF CInv, UpFramed, CtlWrite, appVars
  <2>5. QED
    BY <2>1, <2>3, <2>4 DEF UpFramed, CtlWrite
<1>7. QED
  BY <1>3, <1>4, <1>5, <1>6 DEF CInv

(* The scheduler *)
LEMMA AcceptStep ==
    ASSUME CInv, NEW c \in Conns, SchedAccept(c)
    PROVE  CInv'
<1>1. /\ server[c] = "backlog" /\ server' = [server EXCEPT ![c] = "open"] /\ c # App
      /\ UNCHANGED <<up, down, peer, ctlVars, schedVars, appVars>>
  BY DEF CInv, StreamOK, SchedAccept, Accept
<1>2. StreamOK'
  BY <1>1, AppAssumption DEF CInv, StreamOK
<1>3. CtlOK' /\ SidesOK'
  BY <1>1, SameCtl, SameSides DEF CInv
<1>4. UpFramed'
  <2>1. \A d \in Conns : server'[d] # "none" => server[d] # "none"
    BY <1>1 DEF CInv, StreamOK
  <2>2. at \in Conns
    BY DEF CInv, CtlOK
  <2>3. QED
    BY <1>1, <2>1, <2>2, AppAssumption DEF CInv, UpFramed, ctlVars, appVars
<1>5. DownFramed'
  BY <1>1, AppAssumption DEF CInv, StreamOK, DownFramed, appVars
<1>6. QED
  BY <1>2, <1>3, <1>4, <1>5 DEF CInv

LEMMA HangupStep ==
    ASSUME CInv, NEW c \in Conns, SchedHangup(c)
    PROVE  CInv'
<1>1. /\ server' = [server EXCEPT ![c] = "none"] /\ up' = [up EXCEPT ![c] = <<>>]
      /\ UNCHANGED <<down, peer, ctlVars, schedVars, appVars>>
  BY DEF SchedHangup, Delete
<1>2. StreamOK'
  <2>1. up' \in [Conns -> Seq(Bs)]
    BY <1>1, EmptyOK DEF CInv, StreamOK
  <2>2. \A d \in Conns : Len(up'[d]) <= Cap
    BY <1>1, EmptyOK, BytesAssumption DEF CInv, StreamOK
  <2>3. QED
    BY <1>1, <2>1, <2>2, AppAssumption DEF CInv, StreamOK
<1>3. CtlOK' /\ SidesOK'
  BY <1>1, SameCtl, SameSides DEF CInv
<1>4. UpFramed'
  <2>1. \A d \in Conns : server'[d] # "none" => server[d] # "none" /\ up'[d] = up[d]
    BY <1>1 DEF CInv, StreamOK
  <2>2. at \in Conns
    BY DEF CInv, CtlOK
  <2>3. QED
    BY <1>1, <2>1, <2>2, AppAssumption DEF CInv, UpFramed, ctlVars, appVars
<1>5. DownFramed'
  <2>1. server'[App] = "open" => server[App] = "open"
    BY <1>1, AppAssumption DEF CInv, StreamOK
  <2>2. QED
    BY <1>1, <2>1 DEF CInv, DownFramed, appVars
<1>6. QED
  BY <1>2, <1>3, <1>4, <1>5 DEF CInv

(* What receive_message() takes is a message somebody sent *)
LEMMA ReceiveBytes ==
    ASSUME CInv, NEW c \in Conns, Readable(c), ReceivedMessage(c)
    PROVE  LET v == AfterReceive(c)
           IN /\ v \in [Conns -> Seq(Bs)]
              /\ \A d \in Conns : Len(v[d]) <= Cap
              /\ \A d \in Conns : server[d] # "none" => Aligned(v[d])
              /\ ctl = "write" /\ server[at] # "none" => Whole(v[at] \o rest)
              /\ alive /\ server[App] # "none" => Whole(v[App] \o rest_app)
              /\ Received(c) # <<>> => Received(c)[1].msg \in Msgs
<1> DEFINE p == up[c]
           d == SubSeq(p, MsgLen + 1, Len(p))
           v == AfterReceive(c)
<1>1. p \in Seq(Bs) /\ Len(p) \in Nat /\ MsgLen \in Nat /\ MsgLen > 0
  BY LenProperties, BytesAssumption DEF CInv, StreamOK
<1>2. Len(p) >= MsgLen /\ Received(c) = SubSeq(p, 1, MsgLen)
  <2>1. CASE Len(p) < MsgLen
    <3>1. Received(c) = SubSeq(p, 1, Len(p))
      BY <2>1 DEF Received
    <3>2. SubSeq(p, 1, Len(p)) = p
      BY <1>1, SubSeqFull
    <3>3. Len(p) = MsgLen
      BY <3>1, <3>2 DEF ReceivedMessage
    <3>4. QED
      BY <1>1, <2>1, <3>3
  <2>2. CASE Len(p) >= MsgLen
    <3>1. ~(Len(up[c]) < MsgLen)
      BY <1>1, <2>2
    <3>2. QED
      BY <2>2, <3>1 DEF Received
  <2>3. QED
    BY <1>1, <2>1, <2>2
<1>3. v = [up EXCEPT ![c] = d]
  BY DEF AfterReceive, ReceivedMessage
<1>4. \A t \in Seq(Bs) :
        /\ d \in Seq(Bs) /\ Len(d) = Len(p) - MsgLen
        /\ Aligned(p) => Aligned(d)
        /\ Whole(p \o t) => Whole(d \o t)
  BY <1>1, <1>2, DropMessage
<1>5. d \in Seq(Bs) /\ Len(d) = Len(p) - MsgLen /\ (Aligned(p) => Aligned(d))
  BY <1>4, EmptyOK
<1>6. Received(c) # <<>> => Received(c)[1].msg \in Msgs
  <2>1. 1 \in 1 .. Len(p) /\ 1 \in 1 .. MsgLen
    BY <1>1, <1>2
  <2>2. p[1] \in Bs
    BY <1>1, <2>1, ElementOfSeq
  <2>3. SubSeq(p, 1, MsgLen)[1] = p[1]
    BY <1>1, <2>1
  <2>4. QED
    BY <1>2, <2>2, <2>3 DEF Bs
<1> HIDE DEF d, v
<1>7. up \in [Conns -> Seq(Bs)] /\ \A e \in Conns : Len(up[e]) <= Cap
  BY DEF CInv, StreamOK
<1>8. v[c] = d /\ (\A e \in Conns \ {c} : v[e] = up[e]) /\ v \in [Conns -> Seq(Bs)]
  BY <1>3, <1>5, <1>7
<1>9. \A e \in Conns : Len(v[e]) <= Cap
  <2>1. Len(d) <= Cap
    BY <1>1, <1>5, <1>7, BytesAssumption
  <2>2. QED
    BY <1>7, <1>8, <2>1
<1>10. \A e \in Conns : server[e] # "none" => Aligned(v[e])
  BY <1>5, <1>8 DEF CInv, UpFramed
<1>11. ctl = "write" /\ server[at] # "none" => Whole(v[at] \o rest)
  <2>1. at \in Conns /\ rest \in Seq(Bs)
    BY DEF CInv, CtlOK
  <2>2. Whole(up[at] \o rest) => Whole(v[at] \o rest)
    BY <1>4, <1>8, <2>1
  <2>3. QED
    BY <2>2 DEF CInv, UpFramed
<1>12. alive /\ server[App] # "none" => Whole(v[App] \o rest_app)
  <2>1. rest_app \in Seq(Bs)
    BY DEF CInv, SidesOK
  <2>2. Whole(up[App] \o rest_app) => Whole(v[App] \o rest_app)
    BY <1>4, <1>8, <2>1, AppAssumption
  <2>3. QED
    BY <2>2 DEF CInv, UpFramed
<1>13. QED
  BY <1>6, <1>8, <1>9, <1>10, <1>11, <1>12 DEF v

(* What send_message() writes is a message, or as much of one as fits *)
LEMMA SendBytes ==
    ASSUME CInv, NEW on \in BOOLEAN, server[App] = "open"
    PROVE  LET w == down[App] \o Writable(App, Status(on))
           IN /\ w \in Seq(Bs) /\ Len(w) <= Cap
              /\ alive => Aligned(got \o w)
              /\ alive /\ SentMessage(App, Status(on)) => Whole(got \o w)
<1> DEFINE room == Cap - Len(down[App])
           n == IF room < MsgLen THEN room ELSE MsgLen
           q == got \o down[App]
           b == SubSeq(Bytes(Status(on)), 1, n)
<1>1. /\ down[App] \in Seq(Bs) /\ Len(down[App]) <= Cap /\ Len(down[App]) \in Nat
      /\ got \in Seq(Bs) /\ MsgLen \in Nat /\ Cap \in Nat
  BY AppAssumption, LenProperties, BytesAssumption DEF CInv, StreamOK, SidesOK
<1>2. n \in 0 .. MsgLen /\ Len(down[App]) + n <= Cap
  <2>1. ASSUME NEW l \in Nat, NEW m \in Nat, NEW k \in Nat, l <= k
        PROVE  LET j == IF k - l < m THEN k - l ELSE m IN j \in 0 .. m /\ l + j <= k
    BY <2>1
  <2>2. QED
    BY <1>1, <2>1
<1>3. Writable(App, Status(on)) = b
  BY DEF Writable
<1>4. Status(on) \in Msgs
  BY DEF Msgs, CtlOut, Status
<1>5. q \in Seq(Bs) /\ (alive => Whole(q))
  BY <1>1, ConcatProperties DEF CInv, DownFramed
<1> HIDE DEF n, q
<1>6. \A p \in Seq(Bs) : Whole(p) =>
        /\ b \in Seq(Bs) /\ Len(b) = n
        /\ Aligned(p \o b)
        /\ n = MsgLen => Whole(p \o b)
  BY <1>2, <1>4, AppendMessage
<1>7. b \in Seq(Bs) /\ Len(b) = n
  BY <1>6, EmptyOK
<1> HIDE DEF b
<1>8. got \o (down[App] \o b) = q \o b
  BY <1>1, <1>7, Regroup DEF q
<1>9. down[App] \o b \in Seq(Bs) /\ Len(down[App] \o b) <= Cap
  <2>1. down[App] \o b \in Seq(Bs) /\ Len(down[App] \o b) = Len(down[App]) + Len(b)
    BY <1>1, <1>7, ConcatProperties
  <2>2. QED
    BY <1>2, <1>7, <2>1
<1>10. alive => Aligned(got \o (down[App] \o b))
  BY <1>5, <1>6, <1>8
<1>11. alive /\ SentMessage(App, Status(on)) => Whole(got \o (down[App] \o b))
  BY <1>3, <1>5, <1>6, <1>7, <1>8 DEF SentMessage
<1>12. QED
  BY <1>3, <1>9, <1>10, <1>11

(* A message that tells nobody *)
LEMMA QuietMessage ==
    ASSUME CInv, NEW c \in Conns, Readable(c), ReceivedMessage(c),
           up' = AfterReceive(c), UNCHANGED <<down, server, peer, ctlVars, appVars>>,
           scheduler_on' \in BOOLEAN, tq' \in Ints, tq' >= 1
    PROVE  CInv'
<1>1. /\ up' \in [Conns -> Seq(Bs)]
      /\ \A d \in Conns : Len(up'[d]) <= Cap
      /\ \A d \in Conns : server[d] # "none" => Aligned(up'[d])
      /\ ctl = "write" /\ server[at] # "none" => Whole(up'[at] \o rest)
      /\ alive /\ server[App] # "none" => Whole(up'[App] \o rest_app)
  BY ReceiveBytes
<1>2. StreamOK'
  BY <1>1 DEF CInv, StreamOK
<1>3. CtlOK' /\ DownFramed'
  BY SameCtl, SameDown DEF CInv
<1>4. SidesOK'
  BY DEF CInv, SidesOK, appVars
<1>5. UpFramed'
  BY <1>1 DEF UpFramed, ctlVars, appVars
<1>6. QED
  BY <1>2, <1>3, <1>4, <1>5 DEF CInv

(* A change of status, with the client told or deleted *)
LEMMA BcastMessage ==
    ASSUME CInv, NEW c \in Conns, NEW on \in BOOLEAN, Readable(c), ReceivedMessage(c),
           bcast_status(c, on), scheduler_on' = on,
           UNCHANGED <<tq, peer, ctlVars, appVars>>
    PROVE  CInv'
<1> DEFINE v == AfterReceive(c)
           w == down[App] \o Writable(App, Status(on))
           told == server[App] = "open"
           cut == told /\ ~SentMessage(App, Status(on))
<1>1. /\ v \in [Conns -> Seq(Bs)]
      /\ \A d \in Conns : Len(v[d]) <= Cap
      /\ \A d \in Conns : server[d] # "none" => Aligned(v[d])
      /\ ctl = "write" /\ server[at] # "none" => Whole(v[at] \o rest)
      /\ alive /\ server[App] # "none" => Whole(v[App] \o rest_app)
  BY ReceiveBytes
<1>2. told => /\ w \in Seq(Bs) /\ Len(w) <= Cap
              /\ alive => Aligned(got \o w)
              /\ alive /\ ~cut => Whole(got \o w)
  BY SendBytes
<1>3. /\ down' = IF told THEN [down EXCEPT ![App] = w] ELSE down
      /\ cut => server' = [server EXCEPT ![App] = "none"] /\ up' = [v EXCEPT ![App] = <<>>]
      /\ ~cut => server' = server /\ up' = v
  BY DEF bcast_status
<1> HIDE DEF v, w, cut
<1>4. /\ down \in [Conns -> Seq(Bs)] /\ server \in [Conns -> {"none", "backlog", "open"}]
      /\ \A d \in Conns : Len(down[d]) <= Cap
      /\ server[App] # "backlog" /\ peer \in [Conns -> BOOLEAN]
  BY DEF CInv, StreamOK
<1>5. StreamOK'
  <2>1. down' \in [Conns -> Seq(Bs)] /\ \A d \in Conns : Len(down'[d]) <= Cap
    BY <1>2, <1>3, <1>4
  <2>2. up' \in [Conns -> Seq(Bs)]
    BY <1>1, <1>3, EmptyOK
  <2>3. \A d \in Conns : Len(up'[d]) <= Cap
    <3>1. Len(<<>>) <= Cap
      BY EmptyOK, BytesAssumption
    <3>2. \A d \in Conns : up'[d] = v[d] \/ up'[d] = <<>>
      BY <1>1, <1>3
    <3>3. QED
      BY <1>1, <3>1, <3>2
  <2>4. server' \in [Conns -> {"none", "backlog", "open"}] /\ server'[App] # "backlog"
    BY <1>3, <1>4, AppAssumption
  <2>5. QED
    BY <1>4, <2>1, <2>2, <2>3, <2>4 DEF StreamOK
<1>6. CtlOK'
  BY SameCtl DEF CInv
<1>7. SidesOK'
  BY DEF CInv, SidesOK, appVars
<1>8. UpFramed'
  <2>1. \A d \in Conns : server'[d] # "none" => server[d] # "none" /\ up'[d] = v[d]
    BY <1>1, <1>3, <1>4
  <2>2. at \in Conns
    BY DEF CInv, CtlOK
  <2>3. QED
    BY <1>1, <2>1, <2>2, AppAssumption DEF UpFramed, ctlVars, appVars
<1>9. DownFramed'
  <2>1. CASE told
    <3>1. down'[App] = w
      BY <1>3, <1>4, <2>1, AppAssumption
    <3>2. server'[App] = "open" => ~cut
      BY <1>3, <1>4, AppAssumption
    <3>3. QED
      BY <1>2, <2>1, <3>1, <3>2 DEF DownFramed, appVars
  <2>2. CASE ~told
    <3>1. down' = down /\ server' = server
      BY <1>3, <2>2 DEF cut
    <3>2. QED
      BY <3>1, SameDown DEF CInv
  <2>3. QED
    BY <2>1, <2>2
<1>10. QED
  BY <1>5, <1>6, <1>7, <1>8, <1>9 DEF CInv

LEMMA MessageStep ==
    ASSUME CInv, NEW c \in Conns, SchedMessage(c)
    PROVE  CInv'
<1> DEFINE msg == Received(c)
           type == IF msg # <<>> /\ Aligned(msg) THEN msg[1].msg.type ELSE "OTHER"
<1>1. Readable(c) /\ ReceivedMessage(c) /\ UNCHANGED <<peer, ctlVars, appVars>>
  BY DEF SchedMessage
<1>2. scheduler_on \in BOOLEAN /\ tq \in Ints /\ tq >= 1
  BY DEF CInv, SidesOK
<1>3. \/ /\ type \in {"SCHED_ON", "SCHED_OFF"}
         /\ set_status(c, type = "SCHED_ON") /\ UNCHANGED tq
      \/ /\ type = "SET_TQ"
         /\ tq' = ToInt(msg[1].msg.tq)
         /\ up' = AfterReceive(c)
         /\ UNCHANGED <<down, server, scheduler_on>>
      \/ up' = AfterReceive(c) /\ UNCHANGED <<down, server, schedVars>>
  BY DEF SchedMessage
<1>4. msg # <<>> => msg[1].msg \in Msgs
  BY <1>1, ReceiveBytes
<1>5. type = "SET_TQ" => msg # <<>> /\ msg[1].msg.type = "SET_TQ"
  OBVIOUS
<1> HIDE DEF msg, type
<1>6. CASE set_status(c, type = "SCHED_ON") /\ UNCHANGED tq
  <2> DEFINE on == type = "SCHED_ON"
  <2>1. on \in BOOLEAN
    OBVIOUS
  <2>2. /\ scheduler_on' = on /\ UNCHANGED tq
        /\ \/ bcast_status(c, on)
           \/ up' = AfterReceive(c) /\ UNCHANGED <<down, server>>
    BY <1>6 DEF set_status
  <2> HIDE DEF on
  <2>3. CASE bcast_status(c, on)
    BY <1>1, <2>1, <2>2, <2>3, BcastMessage
  <2>4. CASE up' = AfterReceive(c) /\ UNCHANGED <<down, server>>
    BY <1>1, <1>2, <2>1, <2>2, <2>4, QuietMessage
  <2>5. QED
    BY <2>2, <2>3, <2>4
<1>7. CASE /\ type = "SET_TQ"
           /\ tq' = ToInt(msg[1].msg.tq)
           /\ up' = AfterReceive(c)
           /\ UNCHANGED <<down, server, scheduler_on>>
  <2>1. msg[1].msg \in Msgs /\ msg[1].msg.type = "SET_TQ"
    BY <1>4, <1>5, <1>7
  <2>2. PICK n \in Ints : n > 0 /\ msg[1].msg = SetTq(n)
    BY <2>1 DEF Msgs, CtlOut, Status, ReqLock
  <2>3. tq' = n
    BY <1>7, <2>2, ToIntFacts DEF SetTq
  <2>4. tq' \in Ints /\ tq' >= 1
    BY <2>2, <2>3, WidthAssumption DEF Ints
  <2>5. QED
    BY <1>1, <1>2, <1>7, <2>4, QuietMessage
<1>8. CASE up' = AfterReceive(c) /\ UNCHANGED <<down, server, schedVars>>
  <2>1. scheduler_on' = scheduler_on /\ tq' = tq
    BY <1>8 DEF schedVars
  <2>2. QED
    BY <1>1, <1>2, <1>8, <2>1, QuietMessage
<1>9. QED
  BY <1>3, <1>6, <1>7, <1>8

(* The client *)
LEMMA RequestStep ==
    ASSUME CInv, AppRequest
    PROVE  CInv'
<1>1. /\ rest_app = <<>> /\ rest_app' = Bytes(ReqLock) /\ alive
      /\ UNCHANGED <<up, down, peer, server, ctlVars, schedVars, alive, status_on, got>>
  BY DEF AppRequest, streamVars
<1>2. rest_app' \in Seq(Bs) /\ Len(rest_app') = MsgLen /\ Whole(rest_app')
  BY <1>1, BytesOK DEF Msgs
<1>3. StreamOK' /\ CtlOK'
  BY <1>1, SameStreams, SameCtl DEF CInv, streamVars
<1>4. SidesOK'
  <2>1. Len(rest_app') <= MsgLen
    BY <1>2, BytesAssumption
  <2>2. QED
    BY <1>1, <1>2, <2>1 DEF CInv, SidesOK, schedVars
<1>5. UpFramed'
  <2>1. ASSUME server[App] # "none" PROVE Whole(up[App] \o rest_app')
    <3>1. up[App] \in Seq(Bs)
      BY AppAssumption DEF CInv, StreamOK
    <3>2. up[App] \o <<>> = up[App]
      BY <3>1, EmptyOK
    <3>3. Whole(up[App])
      BY <1>1, <2>1, <3>2 DEF CInv, UpFramed
    <3>4. QED
      BY <1>2, <3>1, <3>3, WholeAppend
  <2>2. QED
    BY <1>1, <2>1 DEF CInv, UpFramed, ctlVars
<1>6. DownFramed'
  BY <1>1 DEF CInv, DownFramed
<1>7. QED
  BY <1>3, <1>4, <1>5, <1>6 DEF CInv

LEMMA AppWriteStep ==
    ASSUME CInv, AppWrite
    PROVE  CInv'
<1>1. PICK n \in 1 .. MsgLen :
        WriteSome(App, rest_app, n) /\ rest_app' = SubSeq(rest_app, n + 1, Len(rest_app))
  BY DEF AppWrite
<1>2. rest_app \in Seq(Bs) /\ Len(rest_app) <= MsgLen /\ alive
  BY DEF CInv, SidesOK, AppWrite
<1>3. /\ StreamOK'
      /\ rest_app' \in Seq(Bs) /\ Len(rest_app') <= Len(rest_app)
      /\ up'[App] \in Seq(Bs) /\ up'[App] \o rest_app' = up[App] \o rest_app
      /\ \A d \in Conns \ {App} : up'[d] = up[d]
      /\ UNCHANGED <<down, peer, server>> /\ server[App] # "none"
  BY <1>1, <1>2, WriteBytes, AppAssumption DEF CInv
<1>4. UNCHANGED <<ctlVars, schedVars, alive, status_on, got>>
  BY DEF AppWrite
<1>5. CtlOK'
  BY <1>4, SameCtl DEF CInv
<1>6. SidesOK'
  <2>1. Len(rest_app') <= MsgLen
    BY <1>2, <1>3, LenProperties, BytesAssumption
  <2>2. QED
    BY <1>3, <1>4, <2>1 DEF CInv, SidesOK, schedVars
<1>7. UpFramed'
  <2>1. Whole(up'[App] \o rest_app')
    BY <1>2, <1>3 DEF CInv, UpFramed
  <2>2. Aligned(up'[App])
    BY <1>3, <2>1, AlignedPrefix DEF Whole
  <2>3. \A d \in Conns : server'[d] # "none" => Aligned(up'[d])
    BY <1>3, <2>2 DEF CInv, UpFramed
  <2>4. ctl' = "write" /\ server'[at'] # "none" => Whole(up'[at'] \o rest')
    BY <1>3, <1>4 DEF CInv, CtlOK, UpFramed, ctlVars
  <2>5. QED
    BY <2>1, <2>3, <2>4 DEF UpFramed
<1>8. DownFramed'
  BY <1>3, <1>4 DEF CInv, DownFramed
<1>9. QED
  BY <1>3, <1>5, <1>6, <1>7, <1>8 DEF CInv

(* A message the client has read whole goes from the front of what it has    *)
(* still to read                                                             *)
LEMMA ReadStep ==
    ASSUME CInv, AppRead
    PROVE  CInv'
<1>1. PICK n \in 1 .. Len(down[App]) :
        /\ ReadSome(App, got, n)
        /\ IF Len(got \o SubSeq(down[App], 1, n)) = MsgLen
           THEN got' = <<>> /\ status_on' = ((got \o SubSeq(down[App], 1, n))[1].msg.type = "SCHED_ON")
           ELSE got' = got \o SubSeq(down[App], 1, n) /\ UNCHANGED status_on
  BY DEF AppRead
<1> DEFINE q == down[App]
           buf == got \o SubSeq(q, 1, n)
           d == SubSeq(q, n + 1, Len(q))
<1>2. /\ alive /\ UNCHANGED <<up, peer, server, ctlVars, schedVars, alive, rest_app>>
      /\ down' = [down EXCEPT ![App] = d] /\ n \in 1 .. MsgLen - Len(got)
  BY <1>1 DEF AppRead, ReadSome, Wanted
<1>3. /\ status_on' \in BOOLEAN
      /\ \/ Len(buf) = MsgLen /\ got' = <<>>
         \/ Len(buf) # MsgLen /\ got' = buf
  <2>1. CASE Len(buf) = MsgLen
    <3>1. got' = <<>> /\ status_on' = (buf[1].msg.type = "SCHED_ON")
      BY <1>1, <2>1
    <3>2. (buf[1].msg.type = "SCHED_ON") \in BOOLEAN
      OBVIOUS
    <3>3. status_on' \in BOOLEAN
      BY <3>1, <3>2, Zenon
    <3>4. QED
      BY <2>1, <3>1, <3>3, Zenon
  <2>2. CASE Len(buf) # MsgLen
    BY <1>1, <2>2 DEF CInv, SidesOK
  <2>3. QED
    BY <2>1, <2>2
<1>4. /\ q \in Seq(Bs) /\ Len(q) <= Cap /\ got \in Seq(Bs) /\ Len(got) < MsgLen
      /\ Len(q) \in Nat /\ Len(got) \in Nat /\ MsgLen \in Nat /\ Cap \in Nat
  BY AppAssumption, LenProperties, BytesAssumption DEF CInv, StreamOK, SidesOK
<1>5. /\ d \in Seq(Bs) /\ Len(d) = Len(q) - n
      /\ buf \in Seq(Bs) /\ Len(buf) = Len(got) + n
      /\ buf \o d = got \o q
  BY <1>4, MoveBytes
<1>6. n \in Nat
  BY <1>4
<1> HIDE DEF q, buf, d
<1>7. Len(buf) <= MsgLen /\ Len(buf) \in Nat /\ Len(d) <= Cap
  BY <1>2, <1>4, <1>5, <1>6
<1>8. down'[App] = d
  BY <1>2, AppAssumption DEF CInv, StreamOK
<1>9. got' \in Seq(Bs) /\ Len(got') < MsgLen
  <2>1. CASE got' = <<>>
    <3>1. <<>> \in Seq(Bs) /\ Len(<<>>) < MsgLen
      BY EmptyOK, BytesAssumption
    <3>2. QED
      BY <2>1, <3>1
  <2>2. CASE Len(buf) # MsgLen /\ got' = buf
    <3>1. Len(buf) < MsgLen
      BY <1>4, <1>7, <2>2
    <3>2. QED
      BY <1>5, <2>2, <3>1
  <2>3. QED
    BY <1>3, <2>1, <2>2
<1>10. (Aligned(got \o q) => Aligned(got' \o d)) /\ (Whole(got \o q) => Whole(got' \o d))
  <2>1. CASE Len(buf) = MsgLen /\ got' = <<>>
    <3> DEFINE e == SubSeq(buf, MsgLen + 1, Len(buf))
    <3>0. Len(buf) >= MsgLen
      BY <1>4, <2>1
    <3>1. /\ e \in Seq(Bs) /\ Len(e) = Len(buf) - MsgLen
          /\ Aligned(buf \o d) => Aligned(e \o d)
          /\ Whole(buf \o d) => Whole(e \o d)
      BY <1>5, <3>0, DropMessage
    <3> HIDE DEF e
    <3>2. Len(e) = 0
      BY <1>4, <2>1, <3>1
    <3>3. e = <<>>
      BY <3>1, <3>2, EmptySeq
    <3>4. QED
      BY <1>5, <2>1, <3>1, <3>3
  <2>2. CASE got' = buf
    BY <1>5, <2>2
  <2>3. QED
    BY <1>3, <2>1, <2>2
<1>11. StreamOK'
  <2>1. down' \in [Conns -> Seq(Bs)] /\ \A e \in Conns : Len(down'[e]) <= Cap
    BY <1>2, <1>5, <1>7, <1>8 DEF CInv, StreamOK
  <2>2. QED
    BY <1>2, <2>1 DEF CInv, StreamOK
<1>12. CtlOK'
  BY <1>2, SameCtl DEF CInv
<1>13. SidesOK'
  BY <1>2, <1>3, <1>9 DEF CInv, SidesOK, schedVars
<1>14. UpFramed'
  BY <1>2 DEF CInv, UpFramed, ctlVars
<1>15. DownFramed'
  BY <1>2, <1>8, <1>10 DEF CInv, DownFramed, q
<1>16. QED
  BY <1>11, <1>12, <1>13, <1>14, <1>15 DEF CInv

LEMMA DiesStep ==
    ASSUME CInv, AppDies
    PROVE  CInv'
<1>1. /\ alive' = FALSE /\ got' = <<>> /\ rest_app' = <<>> /\ PeerClose(App)
      /\ UNCHANGED <<ctlVars, schedVars, status_on>>
  BY DEF AppDies
<1>2. StreamOK'
  <2>1. down' \in [Conns -> Seq(Bs)] /\ peer' \in [Conns -> BOOLEAN]
    BY <1>1, EmptyOK, AppAssumption DEF CInv, StreamOK, PeerClose
  <2>2. \A d \in Conns : Len(down'[d]) <= Cap
    BY <1>1, EmptyOK, BytesAssumption, AppAssumption DEF CInv, StreamOK, PeerClose
  <2>3. QED
    BY <1>1, <2>1, <2>2 DEF CInv, StreamOK, PeerClose
<1>3. CtlOK'
  BY <1>1, SameCtl DEF CInv
<1>4. SidesOK'
  <2>1. got' \in Seq(Bs) /\ Len(got') < MsgLen /\ rest_app' \in Seq(Bs) /\ Len(rest_app') <= MsgLen
    BY <1>1, EmptyOK, BytesAssumption
  <2>2. QED
    BY <1>1, <2>1 DEF CInv, SidesOK, schedVars
<1>5. UpFramed' /\ DownFramed'
  BY <1>1 DEF CInv, UpFramed, DownFramed, PeerClose, ctlVars
<1>6. QED
  BY <1>2, <1>3, <1>4, <1>5 DEF CInv

LEMMA NextCInv == CInv /\ [Next]_vars => CInv'
<1> SUFFICES ASSUME CInv, [Next]_vars PROVE CInv'
  OBVIOUS
<1>1. CASE UNCHANGED vars
  <2>1. UNCHANGED <<streamVars, ctlVars, schedVars, appVars, up, down, peer, server>>
    BY <1>1 DEF vars, streamVars
  <2>2. StreamOK' /\ CtlOK' /\ SidesOK' /\ DownFramed'
    BY <2>1, SameStreams, SameCtl, SameSides, SameDown DEF CInv
  <2>3. UpFramed'
    BY <2>1 DEF CInv, UpFramed, ctlVars, appVars
  <2>4. QED
    BY <2>2, <2>3 DEF CInv
<1>2. CASE CtlNext \/ CtlRefused \/ CtlAgain
  <2>1. CASE CtlParse
    BY <2>1, ParseStep
  <2>2. CASE CtlParsed
    BY <2>2, ParsedStep
  <2>3. CASE \E c \in Ctls : CtlConnect(c)
    BY <2>3, ConnectStep
  <2>4. CASE CtlWrite
    BY <2>4, WriteStep
  <2>5. CASE CtlClose \/ CtlDies
    BY <2>5, CloseStep
  <2>6. CASE CtlEnd \/ CtlRefused
    BY <2>6, EndStep
  <2>7. CASE CtlAgain
    BY <2>7, AgainStep
  <2>8. QED
    BY <1>2, <2>1, <2>2, <2>3, <2>4, <2>5, <2>6, <2>7 DEF CtlNext
<1>3. CASE SchedNext
  <2>1. PICK c \in Conns : SchedAccept(c) \/ SchedHangup(c) \/ SchedMessage(c)
    BY <1>3 DEF SchedNext
  <2>2. QED
    BY <2>1, AcceptStep, HangupStep, MessageStep
<1>4. CASE AppNext
  BY <1>4, RequestStep, AppWriteStep, ReadStep, DiesStep DEF AppNext
<1>5. QED
  BY <1>1, <1>2, <1>3, <1>4 DEF Next

-----------------------------------------------------------------------------
(* The theorems *)

(* Every reachable state of nvsharectl, the scheduler's sockets and the       *)
(* client satisfies the inductive invariant                                   *)
THEOREM CtlInvariance == Spec => []CInv
<1>1. QED
  BY InitCInv, NextCInv, PTL DEF Spec

(* No buffer is overfilled and nvsharectl sends nothing but a status or a TQ  *)
(* that is an int, for every width of int and every command line (cli.c,      *)
(* xopt.c, comm.c)                                                            *)
THEOREM CtlTypeCorrect == Spec => []CtlTypeOK
<1>1. CInv => CtlTypeOK
  <2> SUFFICES ASSUME CInv PROVE CtlTypeOK
    OBVIOUS
  <2>1. parser.argi \in 1 .. Len(argv) + 1 /\ parser.config.tq \in Ints
    BY DEF CInv, CtlOK, ParserOK, Parsers
  <2>2. Range(todo) \subseteq CtlMsgs
    <3>1. todo \in Seq(CtlOut)
      BY DEF CInv, CtlOK
    <3>2. \A i \in DOMAIN todo : todo[i] \in CtlOut
      BY <3>1, LenProperties, ElementOfSeq
    <3>3. CtlOut \subseteq CtlMsgs
      BY DEF CtlOut, CtlMsgs
    <3>4. QED
      BY <3>2, <3>3 DEF Range
  <2>3. QED
    BY <2>1, <2>2 DEF CInv, CtlTypeOK, StreamOK, CtlOK, SidesOK
<1>2. QED
  BY <1>1, CtlInvariance, PTL

(* xopt_parse() never writes past the array of extras, for any command line,  *)
(* any number of extras and any EXTRAS_INIT: the array grows before each      *)
(* write, the terminator's too                                                *)
THEOREM ExtrasStayInBounds == Spec => []ExtrasInBounds
<1>1. CInv => ExtrasInBounds
  BY EndInBounds DEF CInv, CtlOK, ExtrasInBounds
<1>2. QED
  BY <1>1, CtlInvariance, PTL

(* However write_whole(), read_whole() and the scheduler's single reads and   *)
(* writes cut the bytes, both sides read from the beginning of a message:     *)
(* for any size of message and socket buffer and any number of connections    *)
THEOREM FramingNeverSlips == Spec => []Framed
<1>1. CInv => Framed
  BY DEF CInv, UpFramed, DownFramed, Framed
<1>2. QED
  BY <1>1, CtlInvariance, PTL

(* No command line, whatever number it gives to strtol(), and no cut in the   *)
(* bytes makes the scheduler's TQ zero or negative                            *)
THEOREM TqStaysPositive == Spec => []TqPositive
<1>1. CInv => TqPositive
  BY DEF CInv, SidesOK, TqPositive
<1>2. QED
  BY <1>1, CtlInvariance, PTL

-----------------------------------------------------------------------------
(* What the parser has taken in *)

(* v is the last value given to the option before position i, if one was     *)
Setting(args, i, letter, name, v) ==
    LET Given(j, w) == w # NoValue /\ Gives(args, j, letter, name, w)
        Quiet(j) == \A w \in Values(args) : ~Given(j, w)
    IN \/ v = NoValue /\ \A j \in 1 .. i - 1 : Quiet(j)
       \/ \E j \in 1 .. i - 1 : Given(j, v) /\ \A k \in j + 1 .. i - 1 : Quiet(k)

(* The arguments before i are well formed, and they made d, e and c of the   *)
(* parser's doubledash, extras and config                                    *)
Passed(args, i, d, e, c) ==
    /\ d = TRUE <=> EndOfOptions(args) < i
    /\ e > 0 <=> \E j \in 1 .. i - 1 : IsExtra(args, j)
    /\ \A j \in 1 .. i - 1 : IsOption(args, j) => OptionOK(args, j)
    /\ \E v \in Values(args) \cup {NoValue} :
          Setting(args, i, "S", "anti-thrash", v) /\ c.status = v.word
    /\ \E v \in Values(args) \cup {NoValue} :
          Setting(args, i, "T", "set-tq", v) /\ c.tq = ToInt(strtol(v.n))

(* After an error the line is not well formed.  Otherwise the arguments      *)
(* before the one in hand are passed, this one is not a value, and the       *)
(* letters done of it are all -h                                             *)
Reads(args, s) ==
    /\ s.err = TRUE => ~WellFormed(args)
    /\ s.err = FALSE =>
          /\ Passed(args, s.argi, s.doubledash, s.extras, s.config)
          /\ ~IsValue(args, s.argi)
          /\ \A k \in 1 .. s.letter : args[s.argi].letters[k] = "h"

RInv == CtlOK /\ (ctl = "parse" => Reads(argv, parser))

LEMMA Token ==
    ASSUME NEW args \in Seq(Arguments), NEW i \in 1 .. Len(args)
    PROVE  /\ args[i] \in Arguments /\ ArgumentOK(args[i])
           /\ args[i].value \in Values(args)
           /\ args[i] = DoubleDash <=> args[i].kind = "ddash"
           /\ args[i].value = NoValue <=> args[i].value.word = ""
<1>1. args[i] \in Arguments /\ ArgumentOK(args[i])
  BY ElementOfSeq, ArgumentsOK
<1>2. DoubleDash.kind = "ddash" /\ NoValue.word = ""
  BY DEF DoubleDash, NoValue, Word
<1>3. QED
  BY <1>1, <1>2 DEF ArgumentOK, Values

LEMMA EndFacts ==
    ASSUME NEW args \in Seq(Arguments)
    PROVE  LET e == EndOfOptions(args)
           IN /\ e \in 1 .. Len(args) + 1 /\ Len(args) \in Nat
              /\ e = Len(args) + 1 \/ args[e] = DoubleDash
              /\ \A j \in 1 .. e - 1 : args[j] # DoubleDash
<1> DEFINE n == Len(args)
           S == {k \in 1 .. n + 1 : k = n + 1 \/ args[k] = DoubleDash}
           R == OpToRel(<, Nat)
<1>0. n \in Nat
  BY LenProperties
<1> HIDE DEF n
<1>1. S \in SUBSET Nat /\ n + 1 \in S
  BY <1>0
<1>2. \A x, y \in Nat : <<y, x>> \in R <=> y < x
  BY DEF OpToRel
<1>3. IsWellFoundedOn(R, Nat)
  BY NatLessThanWellFounded
<1> HIDE DEF R, S
<1>4. PICK x \in S : \A y \in S : ~(<<y, x>> \in R)
  BY <1>1, <1>3, WFMin
<1>5. x \in 1 .. n + 1 /\ (x = n + 1 \/ args[x] = DoubleDash)
  BY DEF S
<1>6. \A y \in S : ~(y < x)
  BY <1>1, <1>2, <1>4
<1>7. \A j \in 1 .. x - 1 : args[j] # DoubleDash
  BY <1>0, <1>5, <1>6 DEF S
<1>8. \E k \in 1 .. n + 1 : /\ k = n + 1 \/ args[k] = DoubleDash
                            /\ \A j \in 1 .. k - 1 : args[j] # DoubleDash
  BY <1>5, <1>7
<1>9. /\ EndOfOptions(args) \in 1 .. n + 1
      /\ EndOfOptions(args) = n + 1 \/ args[EndOfOptions(args)] = DoubleDash
      /\ \A j \in 1 .. EndOfOptions(args) - 1 : args[j] # DoubleDash
  BY <1>8 DEF EndOfOptions, n
<1>10. QED
  BY <1>0, <1>9 DEF n

(* The argument in hand comes before the end of the options, unless that end *)
(* is behind it or it is the end itself                                      *)
LEMMA BeforeEnd ==
    ASSUME NEW args \in Seq(Arguments), NEW i \in 1 .. Len(args), ~(EndOfOptions(args) < i)
    PROVE  EndOfOptions(args) = i <=> args[i].kind = "ddash"
<1> DEFINE e == EndOfOptions(args)
<1>1. /\ e \in 1 .. Len(args) + 1 /\ Len(args) \in Nat
      /\ e = Len(args) + 1 \/ args[e] = DoubleDash
      /\ \A j \in 1 .. e - 1 : args[j] # DoubleDash
  BY EndFacts
<1>2. args[i] = DoubleDash <=> args[i].kind = "ddash"
  BY Token
<1> HIDE DEF e
<1>3. e = i <=> args[i].kind = "ddash"
  BY <1>1, <1>2 DEF e
<1>4. QED
  BY <1>3 DEF e

(* The value given at a position is unique and one of the line's *)
LEMMA GivesOne ==
    ASSUME NEW args \in Seq(Arguments), NEW i \in 1 .. Len(args), NEW letter, NEW name,
           NEW v, Gives(args, i, letter, name, v)
    PROVE  /\ v \in Values(args)
           /\ \A w : Gives(args, i, letter, name, w) => w = v
<1>1. IsValue(args, i + 1) => i + 1 \in 1 .. Len(args)
  BY LenProperties DEF IsValue
<1>2. v = args[i].value \/ (i + 1 \in 1 .. Len(args) /\ v = args[i + 1].value)
  BY <1>1 DEF Gives
<1>3. v \in Values(args)
  BY <1>2 DEF Values
<1>4. ASSUME NEW w, Gives(args, i, letter, name, w) PROVE w = v
  <2>1. CASE args[i].kind = "long"
    BY <1>4, <2>1 DEF Gives
  <2>2. CASE args[i].kind # "long"
    BY <1>4, <2>2 DEF Gives
  <2>3. QED
    BY <2>1, <2>2
<1>5. QED
  BY <1>3, <1>4

(* A position that gives nothing leaves the setting, one that gives v sets it *)
LEMMA SettingKept ==
    ASSUME NEW args, NEW i \in Nat \ {0}, NEW letter, NEW name, NEW v,
           Setting(args, i, letter, name, v),
           \A w \in Values(args) : w # NoValue => ~Gives(args, i, letter, name, w)
    PROVE  Setting(args, i + 1, letter, name, v)
<1> DEFINE Given(j, w) == w # NoValue /\ Gives(args, j, letter, name, w)
           Quiet(j) == \A w \in Values(args) : ~Given(j, w)
<1>1. Quiet(i)
  OBVIOUS
<1>2. \A j \in 1 .. (i + 1) - 1 : j \in 1 .. i - 1 \/ j = i
  OBVIOUS
<1> HIDE DEF Quiet
<1>3. CASE v = NoValue /\ \A j \in 1 .. i - 1 : Quiet(j)
  <2>1. \A j \in 1 .. (i + 1) - 1 : Quiet(j)
    BY <1>1, <1>2, <1>3
  <2>2. QED
    BY <1>3, <2>1 DEF Setting, Quiet
<1>4. CASE \E j \in 1 .. i - 1 : Given(j, v) /\ \A k \in j + 1 .. i - 1 : Quiet(k)
  <2>1. PICK j \in 1 .. i - 1 : Given(j, v) /\ \A k \in j + 1 .. i - 1 : Quiet(k)
    BY <1>4
  <2>2. j \in 1 .. (i + 1) - 1 /\ \A k \in j + 1 .. (i + 1) - 1 : k \in j + 1 .. i - 1 \/ k = i
    OBVIOUS
  <2>3. \A k \in j + 1 .. (i + 1) - 1 : Quiet(k)
    BY <1>1, <2>1, <2>2
  <2>4. QED
    BY <2>1, <2>2, <2>3 DEF Setting, Quiet
<1>5. QED
  BY <1>3, <1>4 DEF Setting, Quiet

LEMMA SettingMade ==
    ASSUME NEW args, NEW i \in Nat \ {0}, NEW letter, NEW name, NEW v, v # NoValue,
           Gives(args, i, letter, name, v)
    PROVE  Setting(args, i + 1, letter, name, v)
<1>1. i \in 1 .. (i + 1) - 1 /\ ~\E k \in i + 1 .. (i + 1) - 1 : TRUE
  OBVIOUS
<1>2. QED
  BY <1>1 DEF Setting

(* In the end the setting is the last value given *)
LEMMA SettingLast ==
    ASSUME NEW args \in Seq(Arguments), NEW letter, NEW name, NEW v,
           Setting(args, Len(args) + 1, letter, name, v)
    PROVE  LastGiven(args, letter, name) = v
<1> DEFINE n == Len(args)
           Given(j, w) == w # NoValue /\ Gives(args, j, letter, name, w)
           Quiet(j) == \A w \in Values(args) : ~Given(j, w)
           given == {i \in 1 .. n : \E w \in Values(args) : Given(i, w)}
           last == CHOOSE i \in given : \A j \in given : j <= i
<1>1. n \in Nat /\ 1 .. (n + 1) - 1 = 1 .. n
  BY LenProperties
<1>2. LastGiven(args, letter, name) =
          IF given = {} THEN NoValue
          ELSE CHOOSE w \in Values(args) : Gives(args, last, letter, name, w)
  BY DEF LastGiven
<1>3. CASE v = NoValue /\ \A j \in 1 .. n : Quiet(j)
  BY <1>2, <1>3
<1>4. CASE \E j \in 1 .. n : Given(j, v) /\ \A k \in j + 1 .. n : Quiet(k)
  <2>1. PICK j \in 1 .. n : Given(j, v) /\ \A k \in j + 1 .. n : Quiet(k)
    BY <1>4
  <2>2. v \in Values(args) /\ \A w : Gives(args, j, letter, name, w) => w = v
    BY <2>1, GivesOne
  <2>3. j \in given
    BY <2>1, <2>2
  <2>4. \A k \in given : k <= j
    <3> SUFFICES ASSUME NEW k \in given, ~(k <= j) PROVE FALSE
      OBVIOUS
    <3>1. k \in j + 1 .. n
      BY <1>1
    <3>2. QED
      BY <2>1, <3>1
  <2>5. given \subseteq Nat
    BY <1>1
  <2> HIDE DEF given
  <2>6. last = j
    <3>1. last \in given /\ \A k \in given : k <= last
      BY <2>3, <2>4
    <3>2. last <= j /\ j <= last /\ last \in Nat /\ j \in Nat
      BY <2>3, <2>4, <2>5, <3>1
    <3>3. QED
      BY <3>2
  <2> HIDE DEF last
  <2>7. LastGiven(args, letter, name) =
            CHOOSE w \in Values(args) : Gives(args, j, letter, name, w)
    BY <1>2, <2>3, <2>6
  <2>8. QED
    BY <2>1, <2>2, <2>7
<1>5. QED
  BY <1>1, <1>3, <1>4 DEF Setting

-----------------------------------------------------------------------------
(* The option table *)

LEMMA OptionTable ==
    /\ \A letter : {o \in options : o.shortArg = letter} =
           CASE letter = "T" -> {[longArg |-> "set-tq", shortArg |-> "T", type |-> "int"]}
             [] letter = "S" -> {[longArg |-> "anti-thrash", shortArg |-> "S", type |-> "string"]}
             [] letter = "h" -> {[longArg |-> "help", shortArg |-> "h", type |-> "bool"]}
             [] OTHER -> {}
    /\ \A name : {o \in options : o.longArg = name} =
           CASE name = "set-tq" -> {[longArg |-> "set-tq", shortArg |-> "T", type |-> "int"]}
             [] name = "anti-thrash" ->
                    {[longArg |-> "anti-thrash", shortArg |-> "S", type |-> "string"]}
             [] name = "help" -> {[longArg |-> "help", shortArg |-> "h", type |-> "bool"]}
             [] OTHER -> {}
<1> DEFINE a == [longArg |-> "set-tq", shortArg |-> "T", type |-> "int"]
           b == [longArg |-> "anti-thrash", shortArg |-> "S", type |-> "string"]
           c == [longArg |-> "help", shortArg |-> "h", type |-> "bool"]
<1>1. /\ a.shortArg = "T" /\ b.shortArg = "S" /\ c.shortArg = "h"
      /\ a.longArg = "set-tq" /\ b.longArg = "anti-thrash" /\ c.longArg = "help"
  OBVIOUS
<1>2. options = {a, b, c}
  BY DEF options
<1> HIDE DEF a, b, c
<1>3. \A letter : {o \in options : o.shortArg = letter} =
          CASE letter = "T" -> {a} [] letter = "S" -> {b} [] letter = "h" -> {c} [] OTHER -> {}
  BY <1>1, <1>2
<1>4. \A name : {o \in options : o.longArg = name} =
          CASE name = "set-tq" -> {a} [] name = "anti-thrash" -> {b} [] name = "help" -> {c}
            [] OTHER -> {}
  BY <1>1, <1>2
<1>5. QED
  BY <1>3, <1>4 DEF a, b, c

(* A value of type int or string *)
SetTo(s, letter, value) ==
    CASE value.word = "" -> s
      [] value.word # "" /\ letter = "S" -> [s EXCEPT !.config.status = value.word]
      [] value.word = "number" /\ letter = "T" ->
            [s EXCEPT !.config.tq = ToInt(strtol(value.n))]
      [] OTHER -> xopt_set_err(s)

LEMMA SetOutcome ==
    ASSUME NEW s, NEW value, NEW o
    PROVE  /\ o.type = "int" => xopt_set(s, o, value) = SetTo(s, "T", value)
           /\ o.type = "string" => xopt_set(s, o, value) = SetTo(s, "S", value)
           /\ o.type = "bool" => xopt_set(s, o, value) = s
<1>1. o.type = "int" => xopt_set(s, o, value) = SetTo(s, "T", value)
  <2>1. CASE value.word = ""
    BY <2>1 DEF xopt_set, SetTo
  <2>2. CASE value.word = "number"
    BY <2>2 DEF xopt_set, SetTo
  <2>3. CASE value.word \notin {"", "number"}
    BY <2>3 DEF xopt_set, SetTo
  <2>4. QED
    BY <2>1, <2>2, <2>3
<1>2. o.type = "string" => xopt_set(s, o, value) = SetTo(s, "S", value)
  <2>1. CASE value.word = ""
    BY <2>1 DEF xopt_set, SetTo
  <2>2. CASE value.word # ""
    BY <2>2 DEF xopt_set, SetTo
  <2>3. QED
    BY <2>1, <2>2
<1>3. o.type = "bool" => xopt_set(s, o, value) = s
  BY DEF xopt_set
<1>4. QED
  BY <1>1, <1>2, <1>3

LEMMA LongOutcome ==
    ASSUME NEW s, NEW token
    PROVE  LET w == token.value.word
           IN /\ token.name = "help" => ParseLong(s, token) = IF w = "" THEN s ELSE xopt_set_err(s)
              /\ token.name = "set-tq" =>
                    ParseLong(s, token) = IF w = "" THEN xopt_set_err(s)
                                                    ELSE SetTo(s, "T", token.value)
              /\ token.name = "anti-thrash" =>
                    ParseLong(s, token) = IF w = "" THEN xopt_set_err(s)
                                                    ELSE SetTo(s, "S", token.value)
              /\ token.name \notin {"help", "set-tq", "anti-thrash"} =>
                    ParseLong(s, token) = xopt_set_err(s)
<1> DEFINE found == {o \in options : o.longArg = token.name}
           option == CHOOSE o \in found : TRUE
           w == token.value.word
           r == ParseLong(s, token)
<1>1. r = IF found = {} \/ (xopt_get_arg(option) <=> w = "")
                            THEN xopt_set_err(s)
                            ELSE xopt_set(s, option, token.value)
  BY DEF ParseLong
<1>2. ASSUME NEW o, found = {o}
      PROVE  /\ o.type # "bool" => r =
                   IF w = "" THEN xopt_set_err(s) ELSE xopt_set(s, o, token.value)
             /\ o.type = "bool" => r =
                   IF w = "" THEN xopt_set(s, o, token.value) ELSE xopt_set_err(s)
  <2>1. option = o /\ found # {}
    BY <1>2
  <2> HIDE DEF found, option, w, r
  <2>2. xopt_get_arg(option) <=> o.type # "bool"
    BY <2>1 DEF xopt_get_arg
  <2>3. QED
    BY <1>1, <2>1, <2>2
<1>3. ASSUME token.name = "help" PROVE r = IF w = "" THEN s ELSE xopt_set_err(s)
  <2> DEFINE o == [longArg |-> "help", shortArg |-> "h", type |-> "bool"]
  <2>1. found = {o} /\ o.type = "bool"
    BY <1>3, OptionTable
  <2> HIDE DEF found, o, r, w
  <2>2. xopt_set(s, o, token.value) = s
    BY <2>1, SetOutcome
  <2>3. QED
    BY <1>2, <2>1, <2>2
<1>4. ASSUME token.name = "set-tq"
      PROVE  r = IF w = "" THEN xopt_set_err(s) ELSE SetTo(s, "T", token.value)
  <2> DEFINE o == [longArg |-> "set-tq", shortArg |-> "T", type |-> "int"]
  <2>1. found = {o} /\ o.type = "int"
    BY <1>4, OptionTable
  <2> HIDE DEF found, o, r, w
  <2>2. xopt_set(s, o, token.value) = SetTo(s, "T", token.value)
    BY <2>1, SetOutcome
  <2>3. QED
    BY <1>2, <2>1, <2>2
<1>5. ASSUME token.name = "anti-thrash"
      PROVE  r = IF w = "" THEN xopt_set_err(s) ELSE SetTo(s, "S", token.value)
  <2> DEFINE o == [longArg |-> "anti-thrash", shortArg |-> "S", type |-> "string"]
  <2>1. found = {o} /\ o.type = "string"
    BY <1>5, OptionTable
  <2> HIDE DEF found, o, r, w
  <2>2. xopt_set(s, o, token.value) = SetTo(s, "S", token.value)
    BY <2>1, SetOutcome
  <2>3. QED
    BY <1>2, <2>1, <2>2
<1>6. ASSUME token.name \notin {"help", "set-tq", "anti-thrash"}
      PROVE  r = xopt_set_err(s)
  <2>1. found = {}
    BY <1>6, OptionTable
  <2>2. QED
    BY <1>1, <2>1
<1>7. QED
  BY <1>3, <1>4, <1>5, <1>6

(* r is what a letter makes of s *)
Lettered(args, s, letter, left, r) ==
    /\ letter = "h" => r = s
    /\ letter \in {"T", "S"} =>
          r = IF left > 0 \/ ~NextValue(args, s) THEN xopt_set_err(s)
              ELSE SetTo([s EXCEPT !.argi = s.argi + 1], letter, args[s.argi + 1].value)
    /\ letter \notin {"h", "T", "S"} => r = xopt_set_err(s)

LEMMA LetterOutcome ==
    ASSUME NEW args, NEW s, NEW letter, NEW left
    PROVE  Lettered(args, s, letter, left, ParseLetter(args, s, letter, left))
<1> DEFINE found == {o \in options : o.shortArg = letter}
           option == CHOOSE o \in found : TRUE
           t == [s EXCEPT !.argi = s.argi + 1]
           value == args[s.argi + 1].value
           r == ParseLetter(args, s, letter, left)
<1>1. /\ found = {} => r = xopt_set_err(s)
      /\ found # {} /\ ~xopt_get_arg(option) => r = xopt_set(s, option, NoValue)
      /\ found # {} /\ xopt_get_arg(option) =>
            r = IF left > 0 \/ ~NextValue(args, s) THEN xopt_set_err(s)
                                                   ELSE xopt_set(t, option, value)
  BY DEF ParseLetter
<1>2. ASSUME NEW o, found = {o}
      PROVE  /\ o.type = "bool" => r = xopt_set(s, o, NoValue)
             /\ o.type # "bool" =>
                   r = IF left > 0 \/ ~NextValue(args, s) THEN xopt_set_err(s)
                                                          ELSE xopt_set(t, o, value)
  <2>1. option = o /\ found # {}
    BY <1>2
  <2> HIDE DEF found, option, r, t, value
  <2>2. QED
    BY <1>1, <2>1 DEF xopt_get_arg
<1>3. ASSUME letter = "h" PROVE r = s
  <2> DEFINE o == [longArg |-> "help", shortArg |-> "h", type |-> "bool"]
  <2>1. found = {o} /\ o.type = "bool"
    BY <1>3, OptionTable
  <2> HIDE DEF found, o, r, t, value
  <2>2. QED
    BY <1>2, <2>1, SetOutcome
<1>4. ASSUME letter = "T"
      PROVE  r = IF left > 0 \/ ~NextValue(args, s) THEN xopt_set_err(s)
                                                    ELSE SetTo(t, "T", value)
  <2> DEFINE o == [longArg |-> "set-tq", shortArg |-> "T", type |-> "int"]
  <2>1. found = {o} /\ o.type = "int"
    BY <1>4, OptionTable
  <2> HIDE DEF found, o, r, t, value
  <2>2. QED
    BY <1>2, <2>1, SetOutcome
<1>5. ASSUME letter = "S"
      PROVE  r = IF left > 0 \/ ~NextValue(args, s) THEN xopt_set_err(s)
                                                    ELSE SetTo(t, "S", value)
  <2> DEFINE o == [longArg |-> "anti-thrash", shortArg |-> "S", type |-> "string"]
  <2>1. found = {o} /\ o.type = "string"
    BY <1>5, OptionTable
  <2> HIDE DEF found, o, r, t, value
  <2>2. QED
    BY <1>2, <2>1, SetOutcome
<1>6. ASSUME letter \notin {"h", "T", "S"} PROVE r = xopt_set_err(s)
  <2>1. found = {}
    BY <1>6, OptionTable
  <2> HIDE DEF found, r, t, value
  <2>2. QED
    BY <1>1, <2>1
<1> HIDE DEF r
<1>7. Lettered(args, s, letter, left, r)
  BY <1>3, <1>4, <1>5, <1>6 DEF Lettered
<1>8. QED
  BY <1>7 DEF r

-----------------------------------------------------------------------------
(* One argument more *)

(* new is what position i makes of the setting old: f of the value it gives  *)
(* to the option, old itself if it gives none                                *)
Takes(args, i, letter, name, f(_), old, new) ==
    /\ \A w \in Values(args) : w # NoValue /\ Gives(args, i, letter, name, w) => new = f(w)
    /\ (\A w \in Values(args) : w # NoValue => ~Gives(args, i, letter, name, w)) => new = old

TheWord(v) == v.word
TheInt(v) == ToInt(strtol(v.n))

LEMMA PassNext ==
    ASSUME NEW args \in Seq(Arguments), NEW i \in 1 .. Len(args), NEW d, NEW e, NEW c,
           Passed(args, i, d, e, c), NEW d2, NEW e2, NEW c2,
           d2 = TRUE <=> EndOfOptions(args) < i + 1,
           e2 > 0 <=> e > 0 \/ IsExtra(args, i),
           IsOption(args, i) => OptionOK(args, i),
           Takes(args, i, "S", "anti-thrash", TheWord, c.status, c2.status),
           Takes(args, i, "T", "set-tq", TheInt, c.tq, c2.tq)
    PROVE  Passed(args, i + 1, d2, e2, c2)
<1> DEFINE P(v) == Setting(args, i + 1, "S", "anti-thrash", v)
           Q(v) == Setting(args, i + 1, "T", "set-tq", v)
<1>1. i \in Nat \ {0} /\ \A j \in 1 .. (i + 1) - 1 : j \in 1 .. i - 1 \/ j = i
  BY LenProperties
<1>2. i \in 1 .. (i + 1) - 1 /\ \A j \in 1 .. i - 1 : j \in 1 .. (i + 1) - 1
  BY <1>1
<1>3. e2 > 0 <=> \E j \in 1 .. (i + 1) - 1 : IsExtra(args, j)
  BY <1>1, <1>2 DEF Passed
<1>4. \A j \in 1 .. (i + 1) - 1 : IsOption(args, j) => OptionOK(args, j)
  BY <1>1 DEF Passed
<1>5. \E v \in Values(args) \cup {NoValue} : P(v) /\ c2.status = v.word
  <2>1. CASE \A w \in Values(args) : w # NoValue => ~Gives(args, i, "S", "anti-thrash", w)
    <3>1. c2.status = c.status
      BY <2>1 DEF Takes
    <3>2. PICK v \in Values(args) \cup {NoValue} :
              Setting(args, i, "S", "anti-thrash", v) /\ c.status = v.word
      BY DEF Passed
    <3>3. P(v)
      BY <1>1, <2>1, <3>2, SettingKept
    <3>4. QED
      BY <3>1, <3>2, <3>3
  <2>2. CASE \E w \in Values(args) : w # NoValue /\ Gives(args, i, "S", "anti-thrash", w)
    <3>1. PICK w \in Values(args) : w # NoValue /\ Gives(args, i, "S", "anti-thrash", w)
      BY <2>2
    <3>2. c2.status = w.word
      BY <3>1 DEF Takes, TheWord
    <3>3. P(w)
      BY <1>1, <3>1, SettingMade
    <3>4. QED
      BY <3>2, <3>3
  <2>3. QED
    BY <2>1, <2>2
<1>6. \E v \in Values(args) \cup {NoValue} : Q(v) /\ c2.tq = ToInt(strtol(v.n))
  <2>1. CASE \A w \in Values(args) : w # NoValue => ~Gives(args, i, "T", "set-tq", w)
    <3>1. c2.tq = c.tq
      BY <2>1 DEF Takes
    <3>2. PICK v \in Values(args) \cup {NoValue} :
              Setting(args, i, "T", "set-tq", v) /\ c.tq = ToInt(strtol(v.n))
      BY DEF Passed
    <3>3. Q(v)
      BY <1>1, <2>1, <3>2, SettingKept
    <3>4. QED
      BY <3>1, <3>2, <3>3
  <2>2. CASE \E w \in Values(args) : w # NoValue /\ Gives(args, i, "T", "set-tq", w)
    <3>1. PICK w \in Values(args) : w # NoValue /\ Gives(args, i, "T", "set-tq", w)
      BY <2>2
    <3>2. c2.tq = ToInt(strtol(w.n))
      BY <3>1 DEF Takes, TheInt
    <3>3. Q(w)
      BY <1>1, <3>1, SettingMade
    <3>4. QED
      BY <3>2, <3>3
  <2>3. QED
    BY <2>1, <2>2
<1> HIDE DEF P, Q
<1>7. QED
  BY <1>3, <1>4, <1>5, <1>6 DEF Passed, P, Q

(* An argument that is no option gives nothing *)
LEMMA PassOther ==
    ASSUME NEW args \in Seq(Arguments), NEW i \in 1 .. Len(args), NEW d, NEW e, NEW c,
           Passed(args, i, d, e, c), NEW d2, NEW e2, ~IsOption(args, i),
           d2 = TRUE <=> EndOfOptions(args) < i + 1,
           e2 > 0 <=> e > 0 \/ IsExtra(args, i)
    PROVE  Passed(args, i + 1, d2, e2, c)
<1>1. \A letter, name, w : ~Gives(args, i, letter, name, w)
  BY DEF Gives
<1>2. /\ Takes(args, i, "S", "anti-thrash", TheWord, c.status, c.status)
      /\ Takes(args, i, "T", "set-tq", TheInt, c.tq, c.tq)
  BY <1>1 DEF Takes
<1>3. QED
  BY <1>2, PassNext

(* An error of an option is that of a line that is not well formed *)
LEMMA IllFormed ==
    ASSUME NEW args, NEW i \in 1 .. Len(args), IsOption(args, i), ~OptionOK(args, i)
    PROVE  ~WellFormed(args)
BY DEF WellFormed

LEMMA NextFields ==
    ASSUME NEW u \in Parsers
    PROVE  LET r == NextArgument(u)
           IN /\ r.argi = u.argi + 1 /\ r.letter = 0 /\ r.config = u.config
              /\ r.doubledash = u.doubledash /\ r.extras = u.extras /\ r.err = u.err
BY DEF NextArgument, Parsers

(* An argument that is no option *)
LEMMA ReadOther ==
    ASSUME NEW args \in Seq(Arguments), NEW i \in 1 .. Len(args), NEW d, NEW e, NEW c,
           Passed(args, i, d, e, c), ~IsOption(args, i), NEW u \in Parsers,
           u.argi = i, u.err = FALSE, u.config = c,
           u.doubledash = TRUE <=> EndOfOptions(args) < i + 1,
           u.extras > 0 <=> e > 0 \/ IsExtra(args, i)
    PROVE  Reads(args, NextArgument(u))
<1> DEFINE r == NextArgument(u)
<1>1. /\ r.argi = i + 1 /\ r.letter = 0 /\ r.config = c
      /\ r.doubledash = u.doubledash /\ r.extras = u.extras /\ r.err = FALSE
  BY NextFields
<1> HIDE DEF r
<1>2. Passed(args, i + 1, u.doubledash, u.extras, c)
  BY PassOther
<1>3. ~IsValue(args, i + 1)
  <2>1. (i + 1) - 1 = i
    BY LenProperties
  <2>2. QED
    BY <2>1 DEF IsValue, IsOption
<1>4. 1 .. 0 = {}
  OBVIOUS
<1>5. Reads(args, r)
  BY <1>1, <1>2, <1>3, <1>4 DEF Reads
<1>6. QED
  BY <1>5 DEF r

(* v is a right outcome of the option at i behind e extras, before these are *)
(* held against it                                                           *)
Outcome(args, i, e, v) ==
    /\ v \in Parsers /\ v.extras = e
    /\ v.err = TRUE => ~OptionOK(args, i)
    /\ v.err = FALSE /\ e = 0 =>
          /\ Passed(args, v.argi + 1, v.doubledash, v.extras, v.config)
          /\ ~IsValue(args, v.argi + 1)

LEMMA ReadOption ==
    ASSUME NEW args \in Seq(Arguments), NEW i \in 1 .. Len(args), NEW d, NEW e \in Nat, NEW c,
           Passed(args, i, d, e, c), IsOption(args, i), NEW v, Outcome(args, i, e, v)
    PROVE  Reads(args, NextArgument(AcceptOption(v)))
<1> DEFINE u == AcceptOption(v)
           r == NextArgument(u)
<1>0. /\ v \in Parsers /\ v.extras = e
      /\ v.err = TRUE => ~OptionOK(args, i)
      /\ v.err = FALSE /\ e = 0 =>
            /\ Passed(args, v.argi + 1, v.doubledash, v.extras, v.config)
            /\ ~IsValue(args, v.argi + 1)
  BY DEF Outcome
<1>1. (v.err = TRUE \/ v.err = FALSE) /\ (e > 0 \/ e = 0)
  BY <1>0 DEF Parsers
<1>2. CASE v.err = TRUE \/ e > 0
  <2>1. u \in Parsers /\ u.err = TRUE
    BY <1>0, <1>1, <1>2 DEF AcceptOption, xopt_set_err, Parsers
  <2>2. ~OptionOK(args, i)
    BY <1>0, <1>2 DEF Passed, OptionOK
  <2>3. ~WellFormed(args)
    BY <2>2, IllFormed
  <2> HIDE DEF u
  <2>4. r.err = TRUE
    BY <2>1, NextFields
  <2> HIDE DEF r
  <2>5. Reads(args, r)
    BY <2>3, <2>4 DEF Reads
  <2>6. QED
    BY <2>5 DEF r, u
<1>3. CASE v.err = FALSE /\ e = 0
  <2>1. u = v
    BY <1>0, <1>3 DEF AcceptOption
  <2>2. /\ r.argi = v.argi + 1 /\ r.letter = 0 /\ r.config = v.config
        /\ r.doubledash = v.doubledash /\ r.extras = v.extras /\ r.err = FALSE
    BY <1>0, <1>3, <2>1, NextFields
  <2> HIDE DEF r
  <2>3. 1 .. 0 = {}
    OBVIOUS
  <2>4. Reads(args, r)
    BY <1>0, <1>3, <2>2, <2>3 DEF Reads
  <2>5. QED
    BY <2>4 DEF r
<1>4. QED
  BY <1>1, <1>2, <1>3

(* r is s with the value taken in *)
TakesIn(s, letter, value, r) ==
    /\ r \in Parsers
    /\ r.argi = s.argi /\ r.letter = s.letter /\ r.extras = s.extras
    /\ r.doubledash = s.doubledash
    /\ value.word = "" => r = s
    /\ value.word # "" /\ letter = "S" =>
          r.config.status = TheWord(value) /\ r.config.tq = s.config.tq /\ r.err = s.err
    /\ value.word = "number" /\ letter = "T" =>
          r.config.tq = TheInt(value) /\ r.config.status = s.config.status /\ r.err = s.err
    /\ value.word \notin {"", "number"} /\ letter = "T" => r.err = TRUE

LEMMA SetToTakesIn ==
    ASSUME NEW s \in Parsers, NEW value, value.word \in Texts, value.n \in Int,
           NEW letter \in {"T", "S"}
    PROVE  TakesIn(s, letter, value, SetTo(s, letter, value))
<1> DEFINE r == SetTo(s, letter, value)
<1>1. CASE value.word = ""
  <2>1. r = s
    BY <1>1 DEF SetTo
  <2> HIDE DEF r
  <2>2. TakesIn(s, letter, value, r)
    BY <1>1, <2>1 DEF TakesIn
  <2>3. QED
    BY <2>2 DEF r
<1>2. CASE value.word # "" /\ letter = "S"
  <2>1. r = [s EXCEPT !.config.status = value.word]
    BY <1>2 DEF SetTo
  <2> HIDE DEF r
  <2>2. /\ r \in Parsers /\ r.argi = s.argi /\ r.letter = s.letter /\ r.extras = s.extras
        /\ r.doubledash = s.doubledash /\ r.err = s.err
        /\ r.config.tq = s.config.tq /\ r.config.status = value.word
    BY <2>1 DEF Parsers
  <2>3. TakesIn(s, letter, value, r)
    BY <1>2, <2>2 DEF TakesIn, TheWord
  <2>4. QED
    BY <2>3 DEF r
<1>3. CASE value.word = "number" /\ letter = "T"
  <2>1. r = [s EXCEPT !.config.tq = ToInt(strtol(value.n))]
    BY <1>3 DEF SetTo
  <2>2. strtol(value.n) \in Int
    BY WidthAssumption DEF strtol
  <2>3. ToInt(strtol(value.n)) \in Ints
    BY <2>2, ToIntFacts
  <2> DEFINE n == ToInt(strtol(value.n))
  <2> HIDE DEF n, r
  <2>4. /\ r \in Parsers /\ r.argi = s.argi /\ r.letter = s.letter /\ r.extras = s.extras
        /\ r.doubledash = s.doubledash /\ r.err = s.err
        /\ r.config.tq = n /\ r.config.status = s.config.status
    BY <2>1, <2>3 DEF Parsers, n
  <2>5. TakesIn(s, letter, value, r)
    BY <1>3, <2>4 DEF TakesIn, TheInt, n
  <2>6. QED
    BY <2>5 DEF r
<1>4. CASE value.word \notin {"", "number"} /\ letter = "T"
  <2>1. r = [s EXCEPT !.err = TRUE]
    BY <1>4 DEF SetTo, xopt_set_err
  <2> HIDE DEF r
  <2>2. /\ r \in Parsers /\ r.argi = s.argi /\ r.letter = s.letter /\ r.extras = s.extras
        /\ r.doubledash = s.doubledash /\ r.err = TRUE
    BY <2>1 DEF Parsers
  <2>3. TakesIn(s, letter, value, r)
    BY <1>4, <2>2 DEF TakesIn
  <2>4. QED
    BY <2>3 DEF r
<1>5. QED
  BY <1>1, <1>2, <1>3, <1>4

(* --name or --name=value *)
LEMMA ReadLong ==
    ASSUME NEW args \in Seq(Arguments), NEW s \in Parsers, s.argi \in 1 .. Len(args),
           s.err = FALSE, s.doubledash = FALSE, args[s.argi].kind = "long",
           EndOfOptions(args) > s.argi,
           Passed(args, s.argi, s.doubledash, s.extras, s.config)
    PROVE  Reads(args, NextArgument(AcceptOption(ParseLong(s, args[s.argi]))))
<1> DEFINE i == s.argi
           token == args[i]
           value == token.value
           v == ParseLong(s, token)
<1>1. IsOption(args, i) /\ i \in 1 .. Len(args) /\ i \in Nat /\ s.extras \in Nat
  BY LenProperties DEF IsOption, Parsers
<1>2. /\ token \in Arguments /\ value \in Values(args) /\ (value = NoValue <=> value.word = "")
      /\ value.word \in Texts /\ value.n \in Int
  BY Token, ArgumentsOK
<1>3. \A letter, name, w : Gives(args, i, letter, name, w) <=> token.name = name /\ w = value
  BY <1>1 DEF Gives
<1>4. EndOfOptions(args) \in Nat /\ ~(EndOfOptions(args) < i + 1)
  <2>1. EndOfOptions(args) \in 1 .. Len(args) + 1 /\ Len(args) \in Nat
    BY EndFacts
  <2>2. QED
    BY <1>1, <2>1
<1>5. ~IsValue(args, i + 1)
  BY <1>1 DEF IsValue
<1>6. ~IsExtra(args, i)
  BY DEF IsExtra
<1>7. s.extras = 0 => ~\E j \in 1 .. i - 1 : IsExtra(args, j)
  BY DEF Passed
<1>8. ASSUME v = xopt_set_err(s) PROVE v \in Parsers /\ v.err = TRUE /\ v.extras = s.extras
  BY <1>8 DEF xopt_set_err, Parsers
<1> HIDE DEF v, value, token, i
(* an accepted option, with the configuration it leaves *)
<1>9. ASSUME v \in Parsers, v.argi = i, v.extras = s.extras, v.doubledash = FALSE, s.extras = 0,
             OptionOK(args, i),
             Takes(args, i, "S", "anti-thrash", TheWord, s.config.status, v.config.status),
             Takes(args, i, "T", "set-tq", TheInt, s.config.tq, v.config.tq)
      PROVE  /\ Passed(args, v.argi + 1, v.doubledash, v.extras, v.config)
             /\ ~IsValue(args, v.argi + 1)
  <2>1. Passed(args, i, s.doubledash, s.extras, s.config)
    BY DEF i
  <2>2. /\ v.doubledash = TRUE <=> EndOfOptions(args) < i + 1
        /\ v.extras > 0 <=> s.extras > 0 \/ IsExtra(args, i)
    BY <1>4, <1>6, <1>9
  <2>3. Passed(args, i + 1, v.doubledash, v.extras, v.config)
    BY <1>1, <1>9, <2>1, <2>2, PassNext
  <2>4. QED
    BY <1>5, <1>9, <2>3
<1>10. /\ v \in Parsers /\ v.extras = s.extras
       /\ v.err = TRUE => ~OptionOK(args, i)
       /\ v.err = FALSE /\ s.extras = 0 =>
             /\ Passed(args, v.argi + 1, v.doubledash, v.extras, v.config)
             /\ ~IsValue(args, v.argi + 1)
  <2>0. token.kind = "long" /\ args[i] = token /\ token.value = value
    BY DEF token, i, value
  <2>1. CASE token.name = "help"
    <3>1. v = IF value.word = "" THEN s ELSE xopt_set_err(s)
      BY <2>1, LongOutcome DEF v, value
    <3>2. CASE value.word = ""
      <4>1. v = s /\ v.argi = i
        BY <3>1, <3>2 DEF i
      <4>2. \A w : /\ ~Gives(args, i, "T", "set-tq", w)
                   /\ ~Gives(args, i, "S", "anti-thrash", w)
        BY <1>3, <2>1
      <4>3. s.extras = 0 => OptionOK(args, i)
        BY <1>2, <1>7, <2>0, <2>1, <3>2, <4>2 DEF OptionOK
      <4>4. /\ Takes(args, i, "S", "anti-thrash", TheWord, s.config.status, v.config.status)
            /\ Takes(args, i, "T", "set-tq", TheInt, s.config.tq, v.config.tq)
        BY <4>1, <4>2 DEF Takes
      <4>5. QED
        BY <1>9, <4>1, <4>3, <4>4
    <3>3. CASE value.word # ""
      <4>1. v \in Parsers /\ v.err = TRUE /\ v.extras = s.extras
        BY <1>8, <3>1, <3>3
      <4>2. ~OptionOK(args, i)
        BY <1>2, <2>0, <2>1, <3>3 DEF OptionOK
      <4>3. QED
        BY <4>1, <4>2
    <3>4. QED
      BY <3>2, <3>3
  <2>2. CASE token.name \notin {"help", "set-tq", "anti-thrash"}
           \/ (token.name \in {"set-tq", "anti-thrash"} /\ value.word = "")
    <3>1. v = xopt_set_err(s)
      BY <2>2, LongOutcome DEF v, value
    <3>2. ~OptionOK(args, i)
      BY <1>2, <2>0, <2>2 DEF OptionOK
    <3>3. QED
      BY <1>8, <3>1, <3>2
  <2>3. CASE token.name = "set-tq" /\ value.word # ""
    <3>1. v = SetTo(s, "T", value)
      BY <2>3, LongOutcome DEF v, value
    <3>0. TakesIn(s, "T", value, v)
      BY <1>2, <3>1, SetToTakesIn
    <3>2. /\ v \in Parsers /\ v.argi = i /\ v.extras = s.extras /\ v.doubledash = FALSE
          /\ value.word = "number" => /\ v.config.tq = TheInt(value)
                                      /\ v.config.status = s.config.status /\ v.err = FALSE
          /\ value.word # "number" => v.err = TRUE
      BY <2>3, <3>0 DEF TakesIn, i
    <3>3. \A w : /\ Gives(args, i, "T", "set-tq", w) <=> w = value
                 /\ ~Gives(args, i, "S", "anti-thrash", w)
      <4>1. token.name = "set-tq" /\ token.name # "anti-thrash"
        BY <2>3
      <4>2. ASSUME NEW w PROVE Gives(args, i, "T", "set-tq", w) <=> w = value
        <5>1. Gives(args, i, "T", "set-tq", w) <=> token.name = "set-tq" /\ w = value
          BY <1>3
        <5>2. QED
          BY <4>1, <5>1
      <4>3. \A w : ~Gives(args, i, "S", "anti-thrash", w)
        BY <1>3, <4>1, Zenon
      <4>4. QED
        BY <4>2, <4>3
    <3>4. CASE value.word # "number"
      <4>1. ~OptionOK(args, i)
        BY <1>2, <2>3, <3>3, <3>4 DEF OptionOK
      <4>2. QED
        BY <3>2, <3>4, <4>1
    <3>5. CASE value.word = "number"
      <4>1. s.extras = 0 => OptionOK(args, i)
        BY <1>2, <1>7, <2>0, <2>3, <3>3, <3>5 DEF OptionOK
      <4>2. /\ Takes(args, i, "S", "anti-thrash", TheWord, s.config.status, v.config.status)
            /\ Takes(args, i, "T", "set-tq", TheInt, s.config.tq, v.config.tq)
        BY <1>2, <2>3, <3>2, <3>3, <3>5 DEF Takes
      <4>3. QED
        BY <1>9, <3>2, <3>5, <4>1, <4>2
    <3>6. QED
      BY <3>4, <3>5
  <2>4. CASE token.name = "anti-thrash" /\ value.word # ""
    <3>1. v = SetTo(s, "S", value)
      BY <2>4, LongOutcome DEF v, value
    <3>0. TakesIn(s, "S", value, v)
      BY <1>2, <3>1, SetToTakesIn
    <3>2. /\ v \in Parsers /\ v.argi = i /\ v.extras = s.extras /\ v.doubledash = FALSE
          /\ v.config.status = TheWord(value) /\ v.config.tq = s.config.tq /\ v.err = FALSE
      BY <2>4, <3>0 DEF TakesIn, i
    <3>3. \A w : /\ Gives(args, i, "S", "anti-thrash", w) <=> w = value
                 /\ ~Gives(args, i, "T", "set-tq", w)
      <4>1. token.name = "anti-thrash" /\ token.name # "set-tq"
        BY <2>4
      <4>2. ASSUME NEW w PROVE Gives(args, i, "S", "anti-thrash", w) <=> w = value
        <5>1. Gives(args, i, "S", "anti-thrash", w) <=> token.name = "anti-thrash" /\ w = value
          BY <1>3
        <5>2. QED
          BY <4>1, <5>1
      <4>3. \A w : ~Gives(args, i, "T", "set-tq", w)
        BY <1>3, <4>1, Zenon
      <4>4. QED
        BY <4>2, <4>3
    <3>4. s.extras = 0 => OptionOK(args, i)
      BY <1>2, <1>7, <2>0, <2>4, <3>3 DEF OptionOK
    <3>5. /\ Takes(args, i, "S", "anti-thrash", TheWord, s.config.status, v.config.status)
          /\ Takes(args, i, "T", "set-tq", TheInt, s.config.tq, v.config.tq)
      BY <1>2, <2>4, <3>2, <3>3 DEF Takes
    <3>6. QED
      BY <1>9, <3>2, <3>4, <3>5
  <2>5. QED
    BY <2>1, <2>2, <2>3, <2>4
<1>11. Passed(args, i, s.doubledash, s.extras, s.config)
  BY DEF i
<1>12. Reads(args, NextArgument(AcceptOption(v)))
  <2>1. Outcome(args, i, s.extras, v)
    BY <1>10 DEF Outcome
  <2>2. QED
    BY <1>1, <1>11, <2>1, ReadOption
<1>13. QED
  BY <1>12 DEF v, token, i

(* What a cluster may give: the value behind it, to its last letter *)
LEMMA ClusterGives ==
    ASSUME NEW args \in Seq(Arguments), NEW i \in 1 .. Len(args), IsOption(args, i),
           args[i].kind = "short", NEW x, args[i].letters[Len(args[i].letters)] = x
    PROVE  \A letter, name, w : Gives(args, i, letter, name, w) <=>
               x = letter /\ IsValue(args, i + 1) /\ w = args[i + 1].value
BY DEF Gives

(* xopt_parse() takes the next argument for a value *)
LEMMA StepArgument ==
    ASSUME NEW s \in Parsers
    PROVE  LET t == [s EXCEPT !.argi = s.argi + 1]
           IN /\ t \in Parsers /\ t.argi = s.argi + 1 /\ t.extras = s.extras
              /\ t.doubledash = s.doubledash /\ t.config = s.config /\ t.err = s.err
BY DEF Parsers

(* An option that takes a value, with the word behind it: v is the outcome   *)
LEMMA ReadValue ==
    ASSUME NEW args \in Seq(Arguments), NEW s \in Parsers, s.argi \in 1 .. Len(args),
           s.err = FALSE, s.doubledash = FALSE, args[s.argi].kind = "short",
           EndOfOptions(args) > s.argi,
           Passed(args, s.argi, s.doubledash, s.extras, s.config),
           NEW x \in {"T", "S"}, args[s.argi].letters[Len(args[s.argi].letters)] = x,
           \A j \in 1 .. Len(args[s.argi].letters) - 1 : args[s.argi].letters[j] = "h",
           NextValue(args, s)
    PROVE  Outcome(args, s.argi, s.extras,
                   SetTo([s EXCEPT !.argi = s.argi + 1], x, args[s.argi + 1].value))
<1> DEFINE i == s.argi
           n == Len(args[i].letters)
           word == args[i + 1]
           value == word.value
           t == [s EXCEPT !.argi = s.argi + 1]
           v == SetTo(t, x, value)
<1>1. IsOption(args, i) /\ i \in 1 .. Len(args) /\ i \in Nat /\ s.extras \in Nat
  BY LenProperties DEF IsOption, Parsers
<1>2. i + 1 \in 1 .. Len(args) /\ word \in Arguments /\ word.kind = "word" /\ ArgumentOK(word)
  <2>1. i + 1 \in 1 .. Len(args) /\ xopt_get_size(word) = 0
    BY <1>1, LenProperties DEF NextValue
  <2>2. word \in Arguments /\ ArgumentOK(word)
    BY <2>1, Token
  <2>3. word.kind \in {"short", "long", "word", "dash", "ddash"}
    BY <2>2 DEF ArgumentOK
  <2>4. QED
    BY <2>1, <2>2, <2>3 DEF xopt_get_size
<1>3. /\ value \in Values(args) /\ (value = NoValue <=> value.word = "")
      /\ value.word \in Texts /\ value.n \in Int
  BY <1>2, Token, ArgumentsOK
<1>4. n \in Nat /\ n > 0 /\ n \in 1 .. n
  <2>1. ArgumentOK(args[i])
    BY Token
  <2>2. n \in Nat /\ n > 0
    BY <2>1 DEF ArgumentOK
  <2> HIDE DEF n
  <2>3. QED
    BY <2>2
<1>5. IsValue(args, i + 1)
  <2>1. (i + 1) - 1 = i /\ i + 1 \in 2 .. Len(args)
    BY <1>1, <1>2, LenProperties
  <2>2. i < EndOfOptions(args)
    BY <1>1 DEF IsOption
  <2>3. QED
    BY <1>2, <2>1, <2>2 DEF IsValue, TakesValue
<1>6. /\ t \in Parsers /\ t.argi = i + 1 /\ t.extras = s.extras /\ t.doubledash = FALSE
      /\ t.config = s.config /\ t.err = FALSE
  BY StepArgument
<1> HIDE DEF t, value, word
<1>7. TakesIn(t, x, value, v)
  BY <1>3, <1>6, SetToTakesIn
<1> HIDE DEF v
<1>8. /\ v \in Parsers /\ v.argi = i + 1 /\ v.extras = s.extras /\ v.doubledash = FALSE
      /\ value.word = "" => v.config = s.config /\ v.err = FALSE
      /\ value.word # "" /\ x = "S" =>
            v.config.status = TheWord(value) /\ v.config.tq = s.config.tq /\ v.err = FALSE
      /\ value.word = "number" /\ x = "T" =>
            v.config.tq = TheInt(value) /\ v.config.status = s.config.status /\ v.err = FALSE
      /\ value.word \notin {"", "number"} /\ x = "T" => v.err = TRUE
  BY <1>6, <1>7 DEF TakesIn
<1>9. \A letter, name, w : Gives(args, i, letter, name, w) <=> x = letter /\ w = value
  <2>1. \A letter, name, w : Gives(args, i, letter, name, w) <=>
            x = letter /\ IsValue(args, i + 1) /\ w = args[i + 1].value
    BY <1>1, ClusterGives
  <2>2. QED
    BY <1>5, <2>1 DEF value, word
<1>10. ASSUME v.err = TRUE PROVE ~OptionOK(args, i)
  <2>1. x = "T" /\ value.word \notin {"", "number"}
    BY <1>8, <1>10
  <2>2. Gives(args, i, "T", "set-tq", value)
    BY <1>9, <2>1
  <2>3. QED
    BY <1>3, <2>1, <2>2 DEF OptionOK
<1>11. ASSUME v.err = FALSE, s.extras = 0
       PROVE  Passed(args, v.argi + 1, v.doubledash, v.extras, v.config)
  <2>1. OptionOK(args, i)
    <3>1. ~\E j \in 1 .. i - 1 : IsExtra(args, j)
      BY <1>11 DEF Passed
    <3>2. ASSUME NEW k \in 1 .. n
          PROVE  \/ args[i].letters[k] = "h"
                 \/ /\ TakesValue(args[i].letters[k]) /\ k = Len(args[i].letters)
                    /\ IsValue(args, i + 1)
      <4>1. k \in 1 .. n - 1 \/ k = n
        BY <1>4
      <4>2. QED
        BY <1>5, <4>1 DEF TakesValue
    <3>3. \A w : Gives(args, i, "T", "set-tq", w) => w.word \in {"number", ""}
      <4>1. x = "T" => value.word \in {"number", ""}
        BY <1>8, <1>11
      <4>2. \A w : Gives(args, i, "T", "set-tq", w) => x = "T" /\ w = value
        BY <1>9, Zenon
      <4>3. QED
        BY <4>1, <4>2
    <3>4. QED
      BY <3>1, <3>2, <3>3 DEF OptionOK
  <2>2. Takes(args, i, "S", "anti-thrash", TheWord, s.config.status, v.config.status)
    <3>1. CASE x = "S" /\ value # NoValue
      BY <1>3, <1>8, <1>9, <3>1 DEF Takes
    <3>2. CASE ~(x = "S" /\ value # NoValue)
      <4>1. v.config.status = s.config.status
        BY <1>3, <1>8, <1>11, <3>2
      <4>2. \A w : w # NoValue => ~Gives(args, i, "S", "anti-thrash", w)
        BY <1>9, <3>2
      <4>3. QED
        BY <4>1, <4>2 DEF Takes
    <3>3. QED
      BY <3>1, <3>2
  <2>3. Takes(args, i, "T", "set-tq", TheInt, s.config.tq, v.config.tq)
    <3>1. CASE x = "T" /\ value # NoValue
      BY <1>3, <1>8, <1>9, <1>11, <3>1 DEF Takes
    <3>2. CASE ~(x = "T" /\ value # NoValue)
      <4>1. v.config.tq = s.config.tq
        BY <1>3, <1>8, <1>11, <3>2
      <4>2. \A w : w # NoValue => ~Gives(args, i, "T", "set-tq", w)
        BY <1>9, <3>2
      <4>3. QED
        BY <4>1, <4>2 DEF Takes
    <3>3. QED
      BY <3>1, <3>2
  <2>4. /\ EndOfOptions(args) \in Nat
        /\ ~(EndOfOptions(args) < i + 1) /\ ~(EndOfOptions(args) < (i + 1) + 1)
        /\ i + 1 < EndOfOptions(args)
    <3>1. EndOfOptions(args) \in 1 .. Len(args) + 1 /\ Len(args) \in Nat
      BY EndFacts
    <3>2. ~(EndOfOptions(args) < i + 1)
      BY <1>1, <3>1
    <3>3. EndOfOptions(args) # i + 1
      BY <1>2, <3>2, BeforeEnd DEF word
    <3>4. QED
      BY <1>1, <3>1, <3>2, <3>3
  <2>5. ~IsExtra(args, i)
    BY DEF IsExtra
  <2>6. Passed(args, i + 1, v.doubledash, v.extras, v.config)
    <3>1. Passed(args, i, s.doubledash, s.extras, s.config)
      OBVIOUS
    <3>2. /\ v.doubledash = TRUE <=> EndOfOptions(args) < i + 1
          /\ v.extras > 0 <=> s.extras > 0 \/ IsExtra(args, i)
      BY <1>8, <2>4, <2>5
    <3> HIDE DEF i
    <3>3. QED
      BY <1>1, <2>1, <2>2, <2>3, <3>1, <3>2, PassNext
  <2>7. ~IsOption(args, i + 1) /\ ~IsExtra(args, i + 1)
    BY <1>2, <1>5, <2>4 DEF IsOption, IsExtra, word
  <2>8. Passed(args, (i + 1) + 1, v.doubledash, v.extras, v.config)
    <3>1. /\ v.doubledash = TRUE <=> EndOfOptions(args) < (i + 1) + 1
          /\ v.extras > 0 <=> v.extras > 0 \/ IsExtra(args, i + 1)
      BY <1>8, <2>4, <2>7
    <3> HIDE DEF i
    <3>2. QED
      BY <1>2, <2>6, <2>7, <3>1, PassOther
  <2>9. QED
    BY <1>8, <2>8
<1>12. ~IsValue(args, v.argi + 1)
  <2>1. ((i + 1) + 1) - 1 = i + 1
    BY <1>1
  <2>2. ~IsValue(args, (i + 1) + 1)
    BY <1>2, <2>1 DEF IsValue, word
  <2>3. QED
    BY <1>8, <2>2
<1>13. Outcome(args, i, s.extras, v)
  BY <1>8, <1>10, <1>11, <1>12 DEF Outcome
<1>14. QED
  BY <1>13 DEF v, t, value, word

(* One letter of a cluster *)
LEMMA ReadShort ==
    ASSUME NEW args \in Seq(Arguments), NEW s \in Parsers, s.argi \in 1 .. Len(args),
           s.err = FALSE, s.doubledash = FALSE, args[s.argi].kind = "short",
           EndOfOptions(args) > s.argi,
           Passed(args, s.argi, s.doubledash, s.extras, s.config),
           ~IsValue(args, s.argi), s.letter < Len(args[s.argi].letters),
           \A j \in 1 .. s.letter : args[s.argi].letters[j] = "h"
    PROVE  Reads(args, ParseShort(args, s))
<1> DEFINE i == s.argi
           letters == args[i].letters
           n == Len(letters)
           k == s.letter + 1
           x == letters[k]
           left == n - k
           v == ParseLetter(args, s, x, left)
           r == ParseShort(args, s)
<1>1. IsOption(args, i) /\ i \in 1 .. Len(args) /\ i \in Nat /\ s.extras \in Nat
  BY LenProperties DEF IsOption, Parsers
<1>2. n \in Nat /\ k \in 1 .. n /\ (left > 0 <=> k < n) /\ (k < n \/ k = n)
      /\ s.letter = k - 1 /\ k \in Nat
  <2>1. ArgumentOK(args[i])
    BY Token
  <2>2. n \in Nat /\ s.letter \in Nat
    BY <2>1 DEF ArgumentOK, Parsers
  <2>3. ASSUME NEW a \in Nat, NEW b \in Nat, a < b
        PROVE  /\ a + 1 \in 1 .. b /\ (b - (a + 1) > 0 <=> a + 1 < b)
               /\ (a + 1 < b \/ a + 1 = b) /\ a = (a + 1) - 1 /\ a + 1 \in Nat
    BY <2>3
  <2>4. QED
    BY <2>2, <2>3
<1>3. r = IF k < n /\ ~v.err THEN [v EXCEPT !.letter = k] ELSE NextArgument(AcceptOption(v))
  BY DEF ParseShort
<1>4. /\ x = "h" => v = s
      /\ x \in {"T", "S"} =>
            v = IF left > 0 \/ ~NextValue(args, s) THEN xopt_set_err(s)
                ELSE SetTo([s EXCEPT !.argi = s.argi + 1], x, args[s.argi + 1].value)
      /\ x \notin {"h", "T", "S"} => v = xopt_set_err(s)
  <2> HIDE DEF x, left
  <2>1. Lettered(args, s, x, left, v)
    BY LetterOutcome
  <2> HIDE DEF v
  <2>2. QED
    BY <2>1 DEF Lettered
<1>5. ASSUME v = xopt_set_err(s) PROVE v \in Parsers /\ v.err = TRUE /\ v.extras = s.extras
  BY <1>5 DEF xopt_set_err, Parsers
<1> HIDE DEF v, r, left
<1>6. ASSUME r = NextArgument(AcceptOption(v)), Outcome(args, i, s.extras, v)
      PROVE  Reads(args, r)
  BY <1>1, <1>6, ReadOption
<1>7. ASSUME v = xopt_set_err(s), ~OptionOK(args, i) PROVE Reads(args, r)
  BY <1>3, <1>5, <1>6, <1>7 DEF Outcome
<1>8. CASE x = "h" /\ k < n
  <2>1. v = s
    BY <1>4, <1>8
  <2>2. r = [s EXCEPT !.letter = k]
    BY <1>3, <1>8, <2>1
  <2>3. /\ r.argi = i /\ r.letter = k /\ r.err = FALSE /\ r.config = s.config
        /\ r.doubledash = s.doubledash /\ r.extras = s.extras
    BY <2>2 DEF Parsers
  <2>4. \A j \in 1 .. k : args[i].letters[j] = "h"
    <3>1. \A j \in 1 .. k : j \in 1 .. k - 1 \/ j = k
      BY <1>2
    <3>2. QED
      BY <1>2, <1>8, <3>1
  <2>5. Reads(args, r)
    BY <2>3, <2>4 DEF Reads
  <2>6. QED
    BY <2>5 DEF r
<1>9. CASE x = "h" /\ k = n
  <2>1. v = s /\ r = NextArgument(AcceptOption(v))
    BY <1>2, <1>3, <1>4, <1>9
  <2>2. \A j \in 1 .. n : letters[j] = "h"
    <3>1. \A j \in 1 .. n : j \in 1 .. k - 1 \/ j = k
      BY <1>2, <1>9
    <3>2. QED
      BY <1>2, <1>9, <3>1
  <2>3. letters[n] = "h"
    BY <1>9
  <2>4. \A w : ~Gives(args, i, "T", "set-tq", w) /\ ~Gives(args, i, "S", "anti-thrash", w)
    <3>1. \A letter, name, w : Gives(args, i, letter, name, w) => letters[n] = letter
      BY <1>1, ClusterGives
    <3>2. QED
      BY <2>3, <3>1
  <2>5. ~IsValue(args, i + 1)
    <3>1. (i + 1) - 1 = i
      BY <1>1
    <3>2. QED
      BY <2>3, <3>1 DEF IsValue, TakesValue
  <2>6. ASSUME s.extras = 0
        PROVE  Passed(args, v.argi + 1, v.doubledash, v.extras, v.config)
    <3>1. OptionOK(args, i)
      <4>1. ~\E j \in 1 .. i - 1 : IsExtra(args, j)
        BY <2>6 DEF Passed
      <4>2. QED
        BY <2>2, <2>4, <4>1 DEF OptionOK
    <3>2. /\ Takes(args, i, "S", "anti-thrash", TheWord, s.config.status, s.config.status)
          /\ Takes(args, i, "T", "set-tq", TheInt, s.config.tq, s.config.tq)
      BY <2>4 DEF Takes
    <3>3. ~(EndOfOptions(args) < i + 1) /\ ~IsExtra(args, i)
      <4>1. EndOfOptions(args) \in 1 .. Len(args) + 1 /\ Len(args) \in Nat
        BY EndFacts
      <4>2. QED
        BY <1>1, <4>1 DEF IsExtra
    <3>4. /\ s.doubledash = TRUE <=> EndOfOptions(args) < i + 1
          /\ s.extras > 0 <=> s.extras > 0 \/ IsExtra(args, i)
          /\ Passed(args, i, s.doubledash, s.extras, s.config)
      BY <3>3
    <3>5. Passed(args, i + 1, s.doubledash, s.extras, s.config)
      BY <1>1, <3>1, <3>2, <3>4, PassNext
    <3>6. QED
      BY <2>1, <3>5
  <2>7. v.err = FALSE /\ v \in Parsers /\ v.argi = i /\ v.extras = s.extras
    BY <2>1
  <2>8. Reads(args, r)
    BY <1>6, <2>1, <2>5, <2>6, <2>7 DEF Outcome
  <2>9. QED
    BY <2>8 DEF r
<1>10. CASE x \notin {"h", "T", "S"}
  <2>1. ~OptionOK(args, i)
    BY <1>2, <1>10 DEF OptionOK, TakesValue
  <2>2. Reads(args, r)
    BY <1>4, <1>7, <1>10, <2>1
  <2>3. QED
    BY <2>2 DEF r
<1>11. CASE x \in {"T", "S"} /\ (left > 0 \/ ~NextValue(args, s))
  <2>1. k # n \/ ~IsValue(args, i + 1)
    <3>1. CASE left > 0
      BY <1>2, <3>1
    <3>2. CASE ~NextValue(args, s)
      <4>1. IsValue(args, i + 1) => i + 1 <= Len(args) /\ xopt_get_size(args[i + 1]) = 0
        BY <1>1, LenProperties DEF IsValue, xopt_get_size
      <4>2. QED
        BY <3>2, <4>1 DEF NextValue
    <3>3. QED
      BY <1>11, <3>1, <3>2
  <2>2. x # "h"
    BY <1>11
  <2>3. ~OptionOK(args, i)
    BY <1>2, <2>1, <2>2 DEF OptionOK
  <2>4. v = xopt_set_err(s)
    BY <1>4, <1>11
  <2>5. Reads(args, r)
    BY <1>7, <2>3, <2>4
  <2>6. QED
    BY <2>5 DEF r
<1>12. CASE x \in {"T", "S"} /\ ~(left > 0) /\ NextValue(args, s)
  <2>1. k = n /\ v = SetTo([s EXCEPT !.argi = s.argi + 1], x, args[s.argi + 1].value)
    BY <1>2, <1>4, <1>12
  <2>2. letters[n] = x /\ \A j \in 1 .. n - 1 : letters[j] = "h"
    BY <1>2, <2>1
  <2> HIDE DEF x
  <2>3. Outcome(args, i, s.extras, v)
    BY <1>12, <2>1, <2>2, ReadValue
  <2>4. r = NextArgument(AcceptOption(v))
    BY <1>2, <1>3, <2>1
  <2>5. Reads(args, r)
    BY <1>6, <2>3, <2>4
  <2>6. QED
    BY <2>5 DEF r
<1>13. QED
  BY <1>2, <1>8, <1>9, <1>10, <1>11, <1>12

(* One iteration of the loop reads on *)
LEMMA ReadsOn ==
    ASSUME NEW args \in Seq(Arguments), NEW s, ParserOK(args, s), ~xopt_done(args, s),
           Reads(args, s)
    PROVE  Reads(args, xopt_parse_arg(args, s))
<1> DEFINE i == s.argi
           token == args[i]
           e == EndOfOptions(args)
           r == xopt_parse_arg(args, s)
<1>0. /\ s \in Parsers /\ i \in 1 .. Len(args) /\ s.err = FALSE /\ Len(args) \in Nat
      /\ s.letter \in Nat /\ s.extras \in Nat
      /\ s.letter > 0 =>
            /\ token.kind = "short" /\ s.doubledash = FALSE /\ s.letter < Len(token.letters)
  BY LenProperties DEF ParserOK, xopt_done, Parsers
<1>1. /\ Passed(args, i, s.doubledash, s.extras, s.config) /\ ~IsValue(args, i)
      /\ \A k \in 1 .. s.letter : token.letters[k] = "h"
  BY <1>0 DEF Reads
<1>2. ArgumentOK(token) /\ s.doubledash \in BOOLEAN
  BY <1>0, Token DEF Parsers
<1>3. s.doubledash = TRUE <=> e < i
  BY <1>1 DEF Passed
<1>4. e \in Nat /\ i \in Nat
  <2>1. e \in 1 .. Len(args) + 1
    BY EndFacts
  <2>2. QED
    BY <1>0, <2>1
<1>5. ~(e < i) => (e = i <=> token.kind = "ddash")
  BY <1>0, BeforeEnd
<1> HIDE DEF e
<1>6. CASE s.doubledash \/ token.kind \in {"dash", "word"}
  <2> DEFINE u == AddExtra(s)
  <2>1. r = NextArgument(u)
    BY <1>6 DEF xopt_parse_arg
  <2>2. /\ u \in Parsers /\ u.argi = i /\ u.extras = s.extras + 1 /\ u.err = FALSE
        /\ u.config = s.config /\ u.doubledash = s.doubledash
    <3>1. u \in Parsers /\ u.argi = i
      BY <1>0, AddExtraOK DEF ParserOK
    <3>2. /\ u.extras = s.extras + 1 /\ u.err = FALSE
          /\ u.config = s.config /\ u.doubledash = s.doubledash
      BY <1>0 DEF AddExtra, WriteExtra, xopt_assert_increment, Parsers
    <3>3. QED
      BY <3>1, <3>2
  <2> HIDE DEF u
  <2>3. e < i \/ (i < e /\ token.kind \in {"dash", "word"})
    BY <1>2, <1>3, <1>4, <1>5, <1>6
  <2>4. ~IsOption(args, i) /\ IsExtra(args, i)
    BY <1>1, <1>4, <2>3 DEF IsOption, IsExtra, e
  <2>5. /\ u.doubledash = TRUE <=> e < i + 1
        /\ u.extras > 0 <=> s.extras > 0 \/ IsExtra(args, i)
    BY <1>0, <1>3, <1>4, <2>2, <2>3, <2>4
  <2>6. Reads(args, NextArgument(u))
    BY <1>0, <1>1, <2>2, <2>4, <2>5, ReadOther DEF e
  <2>7. QED
    BY <2>1, <2>6
<1>7. CASE ~s.doubledash /\ token.kind = "ddash"
  <2> DEFINE u == [s EXCEPT !.doubledash = TRUE]
  <2>1. r = NextArgument(u)
    BY <1>7 DEF xopt_parse_arg
  <2>2. /\ u \in Parsers /\ u.argi = i /\ u.extras = s.extras /\ u.err = FALSE
        /\ u.config = s.config /\ u.doubledash = TRUE
    BY <1>0 DEF Parsers
  <2> HIDE DEF u
  <2>3. e = i
    BY <1>2, <1>3, <1>5, <1>7
  <2>4. ~IsOption(args, i) /\ ~IsExtra(args, i)
    BY <1>4, <2>3 DEF IsOption, IsExtra, e
  <2>5. /\ u.doubledash = TRUE <=> e < i + 1
        /\ u.extras > 0 <=> s.extras > 0 \/ IsExtra(args, i)
    BY <1>4, <2>2, <2>3, <2>4
  <2>6. Reads(args, NextArgument(u))
    BY <1>0, <1>1, <2>2, <2>4, <2>5, ReadOther DEF e
  <2>7. QED
    BY <2>1, <2>6
<1>8. CASE ~s.doubledash /\ token.kind \in {"long", "short"}
  <2>1. s.doubledash = FALSE /\ e > i
    BY <1>2, <1>3, <1>4, <1>5, <1>8
  <2>2. CASE token.kind = "long"
    <3>1. r = NextArgument(AcceptOption(ParseLong(s, token)))
      BY <1>8, <2>2 DEF xopt_parse_arg
    <3>2. Reads(args, NextArgument(AcceptOption(ParseLong(s, token))))
      BY <1>0, <1>1, <2>1, <2>2, ReadLong DEF e
    <3>3. QED
      BY <3>1, <3>2
  <2>3. CASE token.kind = "short"
    <3>1. r = ParseShort(args, s)
      BY <1>8, <2>3 DEF xopt_parse_arg
    <3>2. s.letter < Len(token.letters)
      <4>1. Len(token.letters) \in Nat /\ Len(token.letters) > 0
        BY <1>2, <2>3 DEF ArgumentOK
      <4>2. QED
        BY <1>0, <4>1
    <3>3. Reads(args, ParseShort(args, s))
      BY <1>0, <1>1, <2>1, <2>3, <3>2, ReadShort DEF e
    <3>4. QED
      BY <3>1, <3>3
  <2>4. QED
    BY <1>8, <2>2, <2>3
<1>9. QED
  BY <1>2, <1>6, <1>7, <1>8 DEF ArgumentOK

LEMMA ReadsStart ==
    ASSUME NEW args \in Seq(Arguments)
    PROVE  Reads(args, Start)
<1> DEFINE s == Start
<1>1. /\ s.argi = 1 /\ s.letter = 0 /\ s.config.tq = 0 /\ s.config.status = ""
      /\ s.doubledash = FALSE /\ s.extras = 0 /\ s.err = FALSE
  BY DEF Start, Config0
<1> HIDE DEF s
<1>2. 1 .. 0 = {} /\ 1 - 1 = 0 /\ ~(0 > 0)
  OBVIOUS
<1>3. ~(EndOfOptions(args) < 1)
  BY EndFacts
<1>4. ~IsValue(args, 1)
  BY LenProperties DEF IsValue
<1>5. \A letter, name : Setting(args, 1, letter, name, NoValue)
  BY <1>2 DEF Setting
<1>6. NoValue.word = "" /\ ToInt(strtol(NoValue.n)) = 0
  <2>1. NoValue.word = "" /\ NoValue.n = 0
    BY DEF NoValue, Word
  <2>2. strtol(0) = 0 /\ 0 \in Ints
    BY WidthAssumption DEF strtol, Ints
  <2>3. QED
    BY <2>1, <2>2, ToIntFacts
<1>7. /\ \E v \in Values(args) \cup {NoValue} :
            Setting(args, 1, "S", "anti-thrash", v) /\ s.config.status = v.word
      /\ \E v \in Values(args) \cup {NoValue} :
            Setting(args, 1, "T", "set-tq", v) /\ s.config.tq = ToInt(strtol(v.n))
  BY <1>1, <1>5, <1>6
<1>8. Passed(args, 1, s.doubledash, s.extras, s.config)
  BY <1>1, <1>2, <1>3, <1>7 DEF Passed
<1>9. Reads(args, s)
  BY <1>1, <1>2, <1>4, <1>8 DEF Reads
<1>10. QED
  BY <1>9 DEF s

(* When the loop is done, what main() makes of the parser's state is what    *)
(* the line means, if its TQ survives strtol() and the cut to int            *)
LEMMA ReadsMeaning ==
    ASSUME NEW args \in Seq(Arguments), NEW s, ParserOK(args, s), xopt_done(args, s),
           Reads(args, s), WellFormed(args) => TqIsInt(args)
    PROVE  CtlMessages(s) = Meant(args)
<1> DEFINE status == LastGiven(args, "S", "anti-thrash").word
           n == LastGiven(args, "T", "set-tq").n
<1>1. s \in Parsers /\ s.argi \in 1 .. Len(args) + 1 /\ Len(args) \in Nat
      /\ (s.err = TRUE \/ s.err = FALSE)
  BY LenProperties DEF ParserOK, Parsers
<1>2. CASE s.err = TRUE
  <2>1. ~WellFormed(args)
    BY <1>2 DEF Reads
  <2>2. Meant(args) = <<>>
    BY <2>1 DEF Meant
  <2>3. CtlMessages(s) = <<>>
    BY <1>2 DEF CtlMessages
  <2>4. QED
    BY <2>2, <2>3
<1>3. CASE s.err = FALSE
  <2>1. s.argi = Len(args) + 1
    BY <1>1, <1>3 DEF xopt_done
  <2>2. Passed(args, Len(args) + 1, s.doubledash, s.extras, s.config)
    BY <1>3, <2>1 DEF Reads
  <2>3. WellFormed(args)
    <3>1. 1 .. (Len(args) + 1) - 1 = 1 .. Len(args)
      BY <1>1
    <3>2. QED
      BY <2>2, <3>1 DEF Passed, WellFormed
  <2>4. s.config.status = status
    BY <2>2, SettingLast DEF Passed
  <2>5. s.config.tq = ToInt(strtol(n))
    BY <1>1, <2>2, SettingLast DEF Passed, Parsers
  <2>11. n \in Ints
    BY <2>3 DEF TqIsInt
  <2> HIDE DEF status, n
  <2>12. s.config.tq = n
    <3>1. strtol(n) = n
      BY <2>11, WidthAssumption DEF strtol, Ints
    <3>2. QED
      BY <2>5, <2>11, <3>1, ToIntFacts
  <2> DEFINE a == IF status = "" THEN <<>> ELSE <<Status(status = "on")>>
             b == IF n > 0 THEN <<SetTq(n)>> ELSE <<>>
             sent == IF status \notin {"", "on", "off"} THEN <<>> ELSE a \o b
  <2>6. CtlMessages(s) = sent
    BY <1>3, <2>4, <2>12 DEF CtlMessages, TqInRange
  <2>7. Meant(args) = sent
    BY <2>3 DEF Meant, status, n
  <2> HIDE DEF sent
  <2>8. QED
    BY <2>6, <2>7
<1>4. QED
  BY <1>1, <1>2, <1>3

-----------------------------------------------------------------------------
LEMMA InitRInv == Init => RInv
<1> SUFFICES ASSUME Init PROVE RInv
  OBVIOUS
<1>1. CtlOK
  BY InitCInv DEF CInv
<1>2. Reads(argv, parser)
  BY <1>1, ReadsStart DEF Init, CtlOK
<1>3. QED
  BY <1>1, <1>2 DEF RInv

LEMMA NextRInv == CInv /\ CInv' /\ RInv /\ [Next]_vars => RInv'
<1> SUFFICES ASSUME CInv, CInv', RInv, [Next]_vars PROVE RInv'
  OBVIOUS
<1>1. CtlOK /\ CtlOK'
  BY DEF CInv
<1>2. CASE CtlParse
  <2>1. /\ argv \in Seq(Arguments) /\ ParserOK(argv, parser) /\ ~xopt_done(argv, parser)
        /\ Reads(argv, parser) /\ parser' = xopt_parse_arg(argv, parser) /\ argv' = argv
    BY <1>1, <1>2 DEF CtlOK, CtlParse, RInv
  <2>2. Reads(argv', parser')
    BY <2>1, ReadsOn
  <2>3. QED
    BY <1>1, <2>2 DEF RInv
<1>3. CASE CtlAgain
  <2>1. parser' = Start /\ argv' \in Seq(Arguments)
    BY <1>1, <1>3 DEF CtlOK, CtlAgain
  <2>2. Reads(argv', parser')
    BY <2>1, ReadsStart
  <2>3. QED
    BY <1>1, <2>2 DEF RInv
<1>4. CASE UNCHANGED <<argv, parser, ctl>>
  BY <1>1, <1>4 DEF RInv
<1>5. CASE ctl' # "parse"
  BY <1>1, <1>5 DEF RInv
<1>6. CASE CtlNext \/ CtlRefused
  BY <1>2, <1>4, <1>5, <1>6
     DEF CtlNext, CtlParsed, CtlConnect, CtlWrite, CtlClose, CtlEnd, CtlDies, CtlRefused
<1>7. CASE SchedNext \/ AppNext
  <2>1. UNCHANGED ctlVars
    BY <1>7 DEF SchedNext, AppNext, SchedAccept, SchedHangup, SchedMessage, AppRequest, AppWrite,
                AppRead, AppDies
  <2>2. QED
    BY <1>4, <2>1 DEF ctlVars
<1>8. CASE UNCHANGED vars
  BY <1>4, <1>8 DEF vars, ctlVars
<1>9. QED
  BY <1>3, <1>6, <1>7, <1>8 DEF Next

(* For any command line, however long, any widths of int and long: what the   *)
(* one pass of xopt_parse() and the checks of main() make of it is the        *)
(* meaning said of its positions, unless it is well formed and its TQ is no   *)
(* int, which xopt.c cuts (cli.c, xopt.c).  The invariant says that           *)
(* the arguments behind the parser are well formed and that its config is     *)
(* the last value given among them.                                           *)
THEOREM CommandLinesAreMeant == Spec => []CommandLineMeaning
<1>1. RInv => CommandLineMeaning
  BY ReadsMeaning DEF RInv, CtlOK, CommandLineMeaning
<1>2. Init /\ [][Next]_vars => []RInv
  <2>1. Init /\ [][Next]_vars => []CInv
    BY InitCInv, NextCInv, PTL
  <2>2. QED
    BY <2>1, InitRInv, NextRInv, PTL
<1>3. QED
  BY <1>1, <1>2, PTL DEF Spec
=============================================================================
