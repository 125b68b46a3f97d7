----------------------------- MODULE JsonNumber -----------------------------
(***************************************************************************)
(* The scanner of numbers, read_number and read_number_raw, and the big    *)
(* integer that decides how a number with many digits is rounded,          *)
(* bigint_set_buf (src/yyjson.c).  A text becomes an integer, or a         *)
(* significand of SAFE_DIG digits and an exponent of ten; how a double is  *)
(* made of those is left out.                                              *)
(*                                                                         *)
(* Behind it, the arithmetic of these big integers (bigint_add_u64 and the *)
(* functions that follow it): chunks of 64 bits, the lowest first, of      *)
(* which the first `used` count and the rest is uninitialized memory.  Two *)
(* of them are computed and compared, to compare a decimal number with a   *)
(* halfway point between two doubles.                                      *)
(*                                                                         *)
(* The limits of 64-bit integers and doubles are constants, so that short  *)
(* texts reach them.  An action is the code from one label to the next.    *)
(***************************************************************************)
EXTENDS Integers, Sequences, FiniteSetsExt, Folds

CONSTANTS Texts,        \* sequences of characters
          SAFE_DIG,     \* U64_SAFE_DIG: a number of so many digits fits (19)
          U_MAX,        \* U64_MAX
          EXP_DIG,      \* U64_SAFE_DIG where it bounds the digits of an exponent (19)
          MIN_EXP, MAX_EXP, \* F64_MIN_DEC_EXP and F64_MAX_DEC_EXP (-324 and 308)
          MAX_DEC_DIG,  \* F64_MAX_DEC_DIG: no halfway point has more digits (768)
          BITS,         \* of a chunk (64)
          CHUNKS,       \* BIGINT_MAX_CHUNKS
          Factors,      \* the numbers that are added and multiplied by, other than 0
          MAX_NUM,      \* a bound: the largest number computed
          Bigs          \* the two numbers

WidthAssumption ==
    /\ SAFE_DIG \in Nat \ {0, 1} /\ EXP_DIG \in Nat \ {0}
    /\ U_MAX \in 10 ^ SAFE_DIG .. 10 ^ (SAFE_DIG + 1) - 1 /\ U_MAX % 2 = 1
    /\ (U_MAX + 1) \div 2 < 10 ^ SAFE_DIG
    /\ MIN_EXP < 0 /\ MAX_EXP > 0 /\ MAX_DEC_DIG > SAFE_DIG

ChunksAssumption ==
    /\ BITS \in Nat \ {0, 1} /\ CHUNKS \in Nat \ {0} /\ Factors \subseteq 1 .. 2 ^ BITS - 1
    /\ MAX_NUM < 2 ^ (BITS * (CHUNKS - 1))

Flag == [raw : BOOLEAN, big : BOOLEAN, inf : BOOLEAN]

VARIABLES
    text, flg,
    at,       \* the label that is reached
    cur,      \* the next character; the first is 1
    sig, len, \* the significand and how many digits it has
    exp,      \* its exponent of ten
    dot,      \* dot_pos: where the decimal point is or would be
    cut, end, \* sig_cut and sig_end: the digits that the significand lacks
    res,      \* what is returned: the kind of the number, where it ends, or the message
    bits, used,  \* of each big integer
    meant        \* what that integer should be; no part of the program

vars == <<text, flg, at, cur, sig, len, exp, dot, cut, end, res>>
bigVars == <<bits, used, meant>>

NULL == 0
DigitChars == {"0", "1", "2", "3", "4", "5", "6", "7", "8", "9"}
ValueOf(c) ==
    CASE c = "0" -> 0 [] c = "1" -> 1 [] c = "2" -> 2 [] c = "3" -> 3 [] c = "4" -> 4
      [] c = "5" -> 5 [] c = "6" -> 6 [] c = "7" -> 7 [] c = "8" -> 8 [] c = "9" -> 9
NonFinite == {"inf", "infinity", "nan"}     \* literals, in any case of the letters

-----------------------------------------------------------------------------
Char(p) == IF p \in DOMAIN text THEN text[p] ELSE "NUL"
IsDigit(p) == Char(p) \in DigitChars
IsExp(p) == Char(p) = "e"
IsFp(p) == IsExp(p) \/ Char(p) = "."
SignLen_MinusOnly(p) == IF Char(p) = "-" THEN 1 ELSE 0
SignLen(p) == IF Char(p) \in {"+", "-"} THEN 1 ELSE 0
\* `while (digi_is_digit(*cur)) cur++`
DigitsEnd(p) == Min({q \in p .. Len(text) + 1 : ~IsDigit(q)})
\* `sig = num + sig * 10` for the digits of the text from p to behind it
Appended(n, p, behind) ==
    LET v[q \in p .. behind] == IF q = p THEN n ELSE 10 * v[q - 1] + ValueOf(text[q - 1])
    IN  v[behind]

Minus == text[1] = "-"
Begin == IF Minus THEN 2 ELSE 1

Return(kind, p) == at' = "done" /\ res' = [kind |-> kind, end |-> p] /\ UNCHANGED <<exp, dot, cut, end>>
Error(msg, p) == at' = "error" /\ res' = [kind |-> msg, end |-> p] /\ UNCHANGED <<exp, dot, cut, end>>
ReturnInt(p) == Return(IF Minus THEN "sint" ELSE "uint", p)
ReturnInf(p) ==
    IF flg.big THEN Return("raw", p)
    ELSE IF flg.inf THEN Return("inf", p)
    ELSE Error("number is infinity when parsed as double", 1)
ReturnReal(p) == exp' = 0 /\ at' = "done" /\ res' = [kind |-> "real", end |-> p] /\ UNCHANGED <<dot, cut, end>>

Goto(label, p) == at' = label /\ cur' = p /\ UNCHANGED res
At(label) == at = label /\ UNCHANGED <<text, flg>>

-----------------------------------------------------------------------------
\* read_number_raw: the text itself is the value
RawNumber ==
    LET hdr == Begin
        int == IF Char(hdr) = "0" THEN hdr + 1 ELSE DigitsEnd(hdr)
        frac == IF Char(int) = "." /\ IsDigit(int + 1) THEN DigitsEnd(int + 1) ELSE int
        digit == frac + 1 + SignLen(frac + 1)
    IN  /\ at = "begin" /\ flg.raw
        /\ IF ~IsDigit(hdr)
           THEN IF flg.inf /\ Char(hdr) \in NonFinite THEN Return("raw", hdr + 1)
                ELSE Error("no digit after minus sign", hdr)
           ELSE IF Char(hdr) = "0" /\ IsDigit(int)
           THEN Error("number with leading zero is not allowed", hdr)
           ELSE IF Char(int) = "." /\ frac = int THEN Error("no digit after decimal point", int + 2)
           ELSE IF ~IsExp(frac) THEN Return("raw", frac)
           ELSE IF ~IsDigit(digit) THEN Error("no digit after exponent sign", digit + 1)
           ELSE Return("raw", DigitsEnd(digit))
        /\ UNCHANGED <<text, flg, cur, sig, len>>

\* A first digit other than 0
BeginDigits ==
    /\ At("begin") /\ ~flg.raw
    /\ IsDigit(Begin) /\ Char(Begin) # "0"
    /\ Goto("intg", Begin)
    /\ UNCHANGED <<sig, len, exp, dot, cut, end>>

\* "no digit", and the literals for what is no finite number
BeginOther ==
    /\ At("begin") /\ ~flg.raw
    /\ ~IsDigit(Begin)
    /\ IF flg.inf /\ Char(Begin) \in NonFinite
       THEN Return(IF Char(Begin) = "nan" THEN "nan" ELSE "inf", Begin + 1)
       ELSE Error("no digit after minus sign", Begin)
    /\ UNCHANGED <<cur, sig, len>>

\* A number that begins with 0: its first other digit may be one behind the point
BeginZero ==
    LET next == Begin + 1
        nonzero == IF Char(next) = "." THEN Min({q \in next + 1 .. Len(text) + 1 : Char(q) # "0"}) ELSE next
        digit == nonzero + 1 + SignLen(nonzero + 1)
        fraction == Char(next) = "." /\ IsDigit(nonzero)
    IN  /\ At("begin") /\ ~flg.raw
        /\ Char(Begin) = "0"
        /\ IF ~IsDigit(next) /\ ~IsFp(next) THEN ReturnInt(next) /\ UNCHANGED cur
           ELSE IF Char(next) = "." /\ ~IsDigit(next + 1)
           THEN Error("no digit after decimal point", next + 1) /\ UNCHANGED cur
           ELSE IF fraction THEN Goto("frac", nonzero + 1) /\ dot' = next /\ UNCHANGED <<exp, cut, end>>
           ELSE IF IsDigit(nonzero)
           THEN Error("number with leading zero is not allowed", nonzero - 1) /\ UNCHANGED cur
           ELSE IF IsExp(nonzero) /\ ~IsDigit(digit)
           THEN Error("no digit after exponent sign", digit) /\ UNCHANGED cur
           ELSE Return("zero", IF IsExp(nonzero) THEN DigitsEnd(digit) ELSE nonzero) /\ UNCHANGED cur
        /\ IF fraction THEN sig' = ValueOf(Char(nonzero)) /\ len' = 1 ELSE UNCHANGED <<sig, len>>

\* The integral part, of which at most SAFE_DIG digits are read; digi_sepr is what follows
Integral ==
    LET stop == Min({DigitsEnd(cur), cur + SAFE_DIG})
        full == stop = cur + SAFE_DIG
        whole == Appended(0, cur, stop)
    IN  /\ At("intg")
        /\ sig' = whole /\ len' = stop - cur
        /\ IF ~IsFp(stop) /\ ~(full /\ IsDigit(stop))
           THEN /\ IF Minus /\ whole > (U_MAX + 1) \div 2
                   THEN IF flg.big THEN Return("raw", stop) ELSE ReturnReal(stop)
                   ELSE ReturnInt(stop)
                /\ UNCHANGED cur
           ELSE IF full THEN Goto("intg_more", stop) /\ UNCHANGED <<exp, dot, cut, end>>
           ELSE /\ dot' = stop
                /\ IF Char(stop) = "." THEN Goto("frac", stop + 1) /\ UNCHANGED end
                   ELSE Goto("exp_more", stop) /\ end' = stop
                /\ UNCHANGED <<exp, cut>>

\* The digits behind the point, until there are SAFE_DIG
Fraction ==
    LET stop == Min({DigitsEnd(cur), cur + SAFE_DIG - len})
    IN  /\ At("frac")
        /\ sig' = Appended(sig, cur, stop) /\ len' = len + stop - cur
        /\ Goto(IF IsDigit(stop) THEN "frac_more" ELSE "frac_end", stop)
        /\ UNCHANGED <<exp, dot, cut, end>>

\* More digits than fit in general; an integer of one more may do
FitsU64_AnyLast(d) == sig <= U_MAX \div 10
FitsU64(d) == sig < U_MAX \div 10 \/ (sig = U_MAX \div 10 /\ d <= U_MAX % 10)
IntegralMore ==
    LET last == IsDigit(cur) /\ ~IsDigit(cur + 1) /\ ~IsFp(cur + 1) /\ FitsU64(ValueOf(Char(cur)))
    IN  /\ At("intg_more")
        /\ sig' = IF last THEN 10 * sig + ValueOf(Char(cur)) ELSE sig
        /\ CASE last -> /\ IF ~Minus THEN ReturnInt(cur + 1)
                           ELSE IF flg.big THEN Return("raw", cur + 1) ELSE ReturnReal(cur + 1)
                        /\ UNCHANGED cur
             [] IsExp(cur) -> Goto("exp_more", cur) /\ dot' = cur /\ UNCHANGED <<exp, cut, end>>
             [] Char(cur) = "." /\ ~IsDigit(cur + 1) ->
                    Error("no digit after decimal point", cur + 1) /\ UNCHANGED cur
             [] Char(cur) = "." /\ IsDigit(cur + 1) ->
                    Goto("frac_more", cur + 1) /\ dot' = cur /\ UNCHANGED <<exp, cut, end>>
             [] OTHER -> Goto("frac_more", cur) /\ UNCHANGED <<exp, dot, cut, end>>
        /\ UNCHANGED len

\* The digits from cur on are cut; the first of them rounds the significand
Cut ==
    LET behind == DigitsEnd(cur)
        point == IF dot # NULL THEN dot ELSE behind
        fractional == dot = NULL /\ Char(behind) = "."
        last == IF fractional THEN DigitsEnd(behind + 1) ELSE behind
        cutsZeros == \A p \in cur .. last - 1 : Char(p) \in {"0", "."}
    IN  /\ At("frac_more")
        /\ sig' = sig + (IF ValueOf(Char(cur)) >= 5 THEN 1 ELSE 0)
        /\ IF dot = NULL /\ ~IsFp(behind) /\ flg.big THEN Return("raw", behind) /\ UNCHANGED cur
           ELSE IF fractional /\ last = behind + 1
           THEN Error("no digit after decimal point", last) /\ UNCHANGED cur
           ELSE /\ dot' = point
                /\ exp' = point - cur + (IF point < cur THEN 1 ELSE 0)
                /\ cut' = (IF cutsZeros THEN NULL ELSE cur)
                /\ end' = (IF cutsZeros THEN end ELSE last)
                /\ Goto(IF IsExp(last) THEN "exp_more" ELSE "exp_finish", last)
        /\ UNCHANGED len

\* The text from the point on gives the exponent, if no digit was cut
FractionEnd ==
    LET e == -(cur - dot - 1)
    IN  /\ At("frac_end")
        /\ IF dot + 1 = cur THEN Error("no digit after decimal point", cur) /\ UNCHANGED cur
           ELSE /\ exp' = e /\ end' = cur
                /\ IF IsExp(cur) THEN Goto("exp_more", cur)
                   ELSE IF e < MIN_EXP - SAFE_DIG
                   THEN at' = "done" /\ res' = [kind |-> "zero", end |-> cur] /\ UNCHANGED cur
                   ELSE Goto("finish", cur)
                /\ UNCHANGED <<dot, cut>>
        /\ UNCHANGED <<sig, len>>

Exponent ==
    LET first == cur + 1 + SignLen(cur + 1)
        digit == Min({q \in first .. Len(text) + 1 : Char(q) # "0"})
        behind == DigitsEnd(digit)
        literal == Appended(0, digit, behind)
        negative == Char(cur + 1) = "-"
    IN  /\ At("exp_more")
        /\ IF ~IsDigit(first) THEN Error("no digit after exponent sign", first) /\ UNCHANGED cur
           ELSE IF behind - digit >= EXP_DIG
           THEN (IF negative THEN Return("zero", behind) ELSE ReturnInf(behind)) /\ UNCHANGED cur
           ELSE /\ exp' = exp + (IF negative THEN -literal ELSE literal)
                /\ Goto("exp_finish", behind)
                /\ UNCHANGED <<dot, cut, end>>
        /\ UNCHANGED <<sig, len>>

ExponentFinish ==
    /\ At("exp_finish")
    /\ IF exp < MIN_EXP - SAFE_DIG THEN Return("zero", cur) /\ UNCHANGED cur
       ELSE IF exp > MAX_EXP THEN ReturnInf(cur) /\ UNCHANGED cur
       ELSE Goto("finish", cur) /\ UNCHANGED <<exp, dot, cut, end>>
    /\ UNCHANGED <<sig, len>>

\* A double is made of the significand and the exponent
Finish ==
    /\ At("finish")
    /\ at' = "done" /\ res' = [kind |-> "real", end |-> cur]
    /\ UNCHANGED <<cur, sig, len, exp, dot, cut, end>>

-----------------------------------------------------------------------------
\* bigint_set_buf: the significand with the digits that were cut, up to a number of digits
\* that tells on which side of a halfway point the number is.  [num, exp, behind]: the big
\* integer, its exponent of ten, and behind which character of the text it stops.
DigitsTotal == SAFE_DIG + end - cut - (IF cut < dot /\ dot < end THEN 1 ELSE 0)
TooMany == DigitsTotal > MAX_DEC_DIG
SetBuf_StaysRounded ==
    LET total == Min({DigitsTotal, MAX_DEC_DIG + 1})
        shorter == end - (DigitsTotal - total)
        behind == IF TooMany /\ dot + 1 = shorter THEN shorter - 1 ELSE shorter
        num[p \in cut .. behind] ==
            IF p = cut THEN sig
            ELSE IF p - 1 = dot THEN num[p - 1]
            ELSE 10 * num[p - 1] + (IF TooMany /\ p = behind THEN 1 ELSE ValueOf(text[p - 1]))
    IN  [num |-> num[behind], exp |-> exp - (total - SAFE_DIG), behind |-> behind]
SetBuf ==
    LET total == Min({DigitsTotal, MAX_DEC_DIG + 1})
        shorter == end - (DigitsTotal - total)
        behind == IF TooMany /\ dot + 1 = shorter THEN shorter - 1 ELSE shorter
        unrounded == sig - (IF ValueOf(text[cut]) >= 5 THEN 1 ELSE 0)
        num[p \in cut .. behind] ==
            IF p = cut THEN unrounded
            ELSE IF p - 1 = dot THEN num[p - 1]
            ELSE 10 * num[p - 1] + (IF TooMany /\ p = behind THEN 1 ELSE ValueOf(text[p - 1]))
    IN  [num |-> num[behind], exp |-> exp - (total - SAFE_DIG), behind |-> behind]

-----------------------------------------------------------------------------
Init ==
    /\ text \in Texts /\ flg \in Flag /\ ~(flg.raw /\ flg.big)     \* the former overrides
    /\ at = "begin" /\ cur = 1 /\ sig = 0 /\ len = 0 /\ exp = 0
    /\ dot = NULL /\ cut = NULL /\ end = NULL
    /\ res = [kind |-> "none", end |-> NULL]

Next ==
    \/ RawNumber \/ BeginDigits \/ BeginOther \/ BeginZero
    \/ Integral \/ Fraction \/ IntegralMore \/ Cut \/ FractionEnd
    \/ Exponent \/ ExponentFinish \/ Finish
    \/ at \in {"done", "error"} /\ UNCHANGED vars

Spec == Init /\ [][Next]_vars

-----------------------------------------------------------------------------
\* The grammar of RFC 8259, as the ends of its parts
IntEnd == IF Char(Begin) = "0" THEN Begin + 1 ELSE DigitsEnd(Begin)
FracEnd == IF Char(IntEnd) = "." THEN DigitsEnd(IntEnd + 1) ELSE IntEnd
ExpDigits == FracEnd + (IF Char(FracEnd + 1) \in {"+", "-"} THEN 2 ELSE 1)
NumberEnd == IF IsExp(FracEnd) THEN DigitsEnd(ExpDigits) ELSE FracEnd
IsNumber ==
    /\ IsDigit(Begin)
    /\ Char(Begin) = "0" => ~IsDigit(IntEnd)
    /\ Char(IntEnd) = "." => IsDigit(IntEnd + 1)
    /\ IsExp(FracEnd) => IsDigit(ExpDigits)
IsInteger == FracEnd = IntEnd /\ ~IsExp(FracEnd)

\* The number is Mantissa * 10 ^ Scale.
Mantissa == Appended(Appended(0, Begin, IntEnd), IF FracEnd > IntEnd THEN IntEnd + 1 ELSE FracEnd, FracEnd)
ExpValue == IF ~IsExp(FracEnd) THEN 0
            ELSE LET n == Appended(0, ExpDigits, NumberEnd)
                 IN  IF Char(FracEnd + 1) = "-" THEN -n ELSE n
Scale == ExpValue - (IF FracEnd > IntEnd THEN FracEnd - IntEnd - 1 ELSE 0)
Digits(n) == CHOOSE d \in 0 .. 12 : n < 10 ^ d /\ (d = 0 \/ n >= 10 ^ (d - 1))

\* read_number and read_number_raw take what the grammar takes, and end where it does; the
\* only numbers that they refuse are too large for a double.
AcceptsNumbers ==
    /\ at = "done" /\ Char(Begin) \notin NonFinite => IsNumber /\ res.end = NumberEnd
    /\ at = "done" /\ Char(Begin) \in NonFinite => flg.inf
    /\ at = "error" => \/ ~IsNumber
                       \/ /\ res.kind = "number is infinity when parsed as double"
                          /\ ~flg.inf /\ ~flg.big /\ Digits(Mantissa) + Scale > MAX_EXP + 1

\* An integer is read exactly if 64 bits can hold it, and as a double, or as text, if not.
IntegersExact ==
    at = "done" /\ IsNumber /\ IsInteger /\ ~flg.raw =>
        LET fits == IF Minus THEN Mantissa <= (U_MAX + 1) \div 2 ELSE Mantissa <= U_MAX
        IN  /\ fits <=> res.kind \in {"uint", "sint"}
            /\ fits => sig = Mantissa /\ (res.kind = "sint" <=> Minus)
            /\ ~fits => res.kind = IF flg.big THEN "raw" ELSE res.kind

\* n * 10 ^ e as a multiple of the number's last digit, for an e that is not below Scale
Scaled(n, e) == n * 10 ^ (e - Scale)
Distance(a, b) == IF a > b THEN a - b ELSE b - a

\* The significand and the exponent are the number, or within half a unit of it where digits
\* were cut, which is the error that the slow path of read_number starts from (fp_err); zero
\* and infinity are returned only for what no double can tell from them; and the big integer
\* that decides a close case is the number itself, or has its first MAX_DEC_DIG digits if the
\* decimal point is not among the characters that are dropped.
PointKept == ~(cut < dot /\ dot < end) \/ dot < end - (DigitsTotal - (MAX_DEC_DIG + 1))
DecimalsClose ==
    at = "done" /\ IsNumber /\ ~flg.raw =>
        /\ res.kind = "real" /\ cut = NULL => Scaled(sig, exp) = Mantissa
        /\ res.kind = "real" /\ cut # NULL =>
               /\ 2 * Distance(Scaled(sig, exp), Mantissa) <= Scaled(1, exp)
               /\ IF TooMany THEN PointKept => SetBuf.num \div 10 = Mantissa \div Scaled(10, SetBuf.exp)
                  ELSE Scaled(SetBuf.num, SetBuf.exp) = Mantissa
        /\ res.kind = "zero" => Mantissa = 0 \/ Digits(Mantissa) + Scale <= MIN_EXP
        /\ res.kind = "inf" => Digits(Mantissa) + Scale > MAX_EXP + 1

-----------------------------------------------------------------------------
Base == 2 ^ BITS
Index == 0 .. CHUNKS - 1

-----------------------------------------------------------------------------
\* The chunks are computed as functions of their index, the new ones from the old ones.
Update(b, chunks, n, value) ==
    /\ value <= MAX_NUM
    /\ bits' = [bits EXCEPT ![b] = chunks]
    /\ used' = [used EXCEPT ![b] = n]
    /\ meant' = [meant EXCEPT ![b] = value]

\* bigint_set_u64
Set(b, v) == Update(b, [bits[b] EXCEPT ![0] = v], 1, v)

\* bigint_add_u64: a carry goes up to the first chunk that is not full, or into a new one
Add(b, v) ==
    LET old == bits[b]
        add == (old[0] + v) % Base
        stop == Min({i \in 1 .. used[b] : i = used[b] \/ old[i] # Base - 1})
        carried == [i \in Index |-> CASE i = 0 -> add
                                      [] i \in 1 .. stop - 1 -> 0
                                      [] i = stop -> IF i = used[b] THEN 1 ELSE old[i] + 1
                                      [] OTHER -> old[i]]
    IN  IF add >= old[0] THEN Update(b, [old EXCEPT ![0] = add], used[b], meant[b] + v)
        ELSE Update(b, carried, IF stop = used[b] THEN stop + 1 ELSE used[b], meant[b] + v)

\* bigint_mul_u64: from the first chunk that is not 0 on
Mul(b, v) ==
    LET old == bits[b]
        product[i \in 0 .. used[b]] ==    \* [lo, carry] for the chunks below i
            IF i = 0 THEN [lo |-> old, carry |-> 0]
            ELSE LET p == old[i - 1] * v + product[i - 1].carry
                 IN  [lo |-> [product[i - 1].lo EXCEPT ![i - 1] = p % Base], carry |-> p \div Base]
        all == product[used[b]]
    IN  IF all.carry > 0
        THEN Update(b, [all.lo EXCEPT ![used[b]] = all.carry], used[b] + 1, meant[b] * v)
        ELSE Update(b, all.lo, used[b], meant[b] * v)

\* bigint_mul_pow2: every chunk moves up by `move` and gets the high bits of the one below
Shifted_AlwaysGrows(b, shft, move) ==
    used[b] + move + (IF shft > 0 THEN 1 ELSE 0)
Shifted(b, shft, move) ==
    LET top == bits[b][used[b] - 1] \div 2 ^ (BITS - shft)
    IN  used[b] + move + (IF shft > 0 /\ top > 0 THEN 1 ELSE 0)
\* `big->bits[idx] = 0` clears the one chunk behind them that is read
Chunk_Uninitialized(b, i) == IF i \in 0 .. used[b] THEN bits[b][i] ELSE 0
Chunk(b, i) == IF i \in 0 .. used[b] - 1 THEN bits[b][i] ELSE 0
MulPow2(b, e) ==
    LET shft == e % BITS
        move == e \div BITS
        last == used[b] + move - (IF shft = 0 THEN 1 ELSE 0)
        moved(i) == ((Chunk(b, i - move) * 2 ^ shft) % Base) + (Chunk(b, i - move - 1) \div 2 ^ (BITS - shft))
    IN  /\ last \in Index
        /\ Update(b, [i \in Index |-> IF i <= last THEN moved(i) ELSE bits[b][i]],
                  Shifted(b, shft, move), meant[b] * 2 ^ e)

\* bigint_cmp
Cmp(a, b) ==
    LET differ == {i \in 0 .. used[a] - 1 : bits[a][i] # bits[b][i]}
    IN  IF used[a] # used[b] THEN (IF used[a] < used[b] THEN -1 ELSE 1)
        ELSE IF differ = {} THEN 0
        ELSE IF bits[a][Max(differ)] < bits[b][Max(differ)] THEN -1 ELSE 1

-----------------------------------------------------------------------------
BigInit ==
    /\ bits \in [Bigs -> {[i \in Index |-> IF i = 0 THEN 1 ELSE g] : g \in {0, Base - 1}}]
    /\ used = [b \in Bigs |-> 1]
    /\ meant = [b \in Bigs |-> 1]

BigNext ==
    \E b \in Bigs :
        \/ \E v \in Factors : Set(b, v) \/ Add(b, v) \/ Mul(b, v)
        \/ \E e \in 0 .. BITS * (CHUNKS - 1) : MulPow2(b, e)

BigSpec == BigInit /\ [][BigNext]_bigVars

-----------------------------------------------------------------------------
\* The chunks in use are the number, whatever the memory behind them held and however far
\* carries and shifts went (bigint_add_u64, bigint_mul_u64, bigint_mul_pow2).
ChunksAreNumber ==
    \A b \in Bigs : MapThenFoldSet(+, 0, LAMBDA i : bits[b][i] * Base ^ i, LAMBDA s : CHOOSE i \in s : TRUE,
                                   0 .. used[b] - 1) = meant[b]

\* bigint_cmp, which looks at how many chunks are used before it looks into them, is right:
\* no number has more of them than it needs.
ComparesNumbers ==
    \A a, b \in Bigs :
        Cmp(a, b) = IF meant[a] < meant[b] THEN -1 ELSE IF meant[a] > meant[b] THEN 1 ELSE 0
=============================================================================
