---------------------- MODULE PaymentMethodValidator ----------------------
(***************************************************************************)
(* The rules of PaymentMethodValidatorService, and one call of validate.   *)
(*                                                                         *)
(* A character is a number: 0..9 the digits, 10..35 the letters A..Z (the  *)
(* values IBAN arithmetic gives them), 36..61 the letters a..z, and one    *)
(* number for each separator.  Names of provider types, countries and      *)
(* codes that differ in case or blanks only are one value here, except     *)
(* that the empty name keeps its meaning.                                  *)
(***************************************************************************)
EXTENDS Integers, Sequences, FiniteSets, SequencesExt, TLC

CONSTANTS
    Calls,         \* the calls of validate: records of a provider and an identifier
    IbanLengths    \* IBAN_LENGTHS: known countries (pairs of letters) and their length

VARIABLES
    call,       \* the arguments of the call
    verdict     \* "none" until validate has run, then "accepted" or "rejected"

Digits == 0..9
Letters == 10..35
LowerCase == 36..61
Space == 62
Dash == 63
Dot == 64
AtSign == 65
Plus == 66
LeftParenthesis == 67
RightParenthesis == 68
Separators == {Space, Dash, Dot}    \* those of [\s\-/._] that occur
Characters == 0..68

ASSUME CallsAssumption == \A c \in Calls : c.identifier \in Seq(Characters)

Upper(c) == IF c \in LowerCase THEN c - 26 ELSE c

Trim(s) ==
    LET P == {i \in DOMAIN s : s[i] # Space}
    IN IF P = {} THEN <<>> ELSE SubSeq(s, Min(P), Max(P))

\* The characters of s that are in S, in their order: the k-th is the one that ends with
\* k of them.
Keep(s, S) ==
    LET P == {i \in DOMAIN s : s[i] \in S}
    IN [k \in 1..Cardinality(P) |-> s[CHOOSE i \in P : Cardinality(P \cap 1..i) = k]]

StripNonDigits(s) == Keep(s, Digits)

Drop(s, n) == SubSeq(s, n + 1, Len(s))

----------------------------------------------------------------------------
(* Phones *)

\* A rule that forgets the 00 prefix.
IsValidCostaRicanPhoneNo00(s) ==
    LET d == StripNonDigits(s)
        n == IF IsPrefix(<<5, 0, 6>>, d) THEN Drop(d, 3) ELSE d
    IN Len(n) = 8 /\ n[1] \in 6..8

IsValidCostaRicanPhone(s) ==
    LET d == StripNonDigits(s)
        n == IF IsPrefix(<<0, 0, 5, 0, 6>>, d) THEN Drop(d, 5)
             ELSE IF IsPrefix(<<5, 0, 6>>, d) THEN Drop(d, 3) ELSE d
    IN Len(n) = 8 /\ n[1] \in 6..8

IsValidVenezuelanPhone(s) ==
    LET d == StripNonDigits(s)
        n == IF IsPrefix(<<5, 8>>, d) THEN <<0>> \o Drop(d, 2) ELSE d
    IN Len(n) = 11 /\ SubSeq(n, 1, 2) = <<0, 4>>
       /\ SubSeq(n, 3, 4) \in {<<1, 2>>, <<1, 4>>, <<1, 6>>, <<2, 4>>, <<2, 6>>}

IsValidBrazilianPhone(s) ==
    LET d == StripNonDigits(s)
        n == IF IsPrefix(<<5, 5>>, d) /\ Len(d) > 2 /\ d[3] # 0 THEN Drop(d, 2) ELSE d
    IN Len(n) = 11 /\ n[1] # 0 /\ n[3] = 9

----------------------------------------------------------------------------
(* Checksums *)

\* The number a sequence of digits spells when it is written after n.
Number(n, s) ==
    LET upTo[i \in 0..Len(s)] == IF i = 0 THEN n ELSE 10 * upTo[i - 1] + s[i]
    IN upTo[Len(s)]

\* A slice that ends one digit early.
Mod97ShortSlice(s) ==
    LET slices == (Len(s) + 6) \div 7
        rem[k \in 0..slices] ==
            IF k = 0 THEN 0
            ELSE Number(rem[k - 1], SubSeq(s, 7 * k - 6, Min({7 * k - 1, Len(s)}))) % 97
    IN rem[slices]

\* Seven digits at a time, each slice written after the remainder so far.
Mod97(s) ==
    LET slices == (Len(s) + 6) \div 7
        rem[k \in 0..slices] ==
            IF k = 0 THEN 0
            ELSE Number(rem[k - 1], SubSeq(s, 7 * k - 6, Min({7 * k, Len(s)}))) % 97
    IN rem[slices]

\* Letters are replaced by their two-digit value.
Value(c) == IF c \in Digits THEN <<c>> ELSE <<c \div 10, c % 10>>

Numeric(s) ==
    LET upTo[i \in 0..Len(s)] == IF i = 0 THEN <<>> ELSE upTo[i - 1] \o Value(s[i])
    IN upTo[Len(s)]

\* Without spaces, in upper case.
Compact(s) == LET t == Keep(s, Characters \ {Space}) IN [i \in DOMAIN t |-> Upper(t[i])]

IsValidIban(s) ==
    LET iban == Compact(s)
        country == SubSeq(iban, 1, 2)
    IN /\ Len(iban) \in 15..34
       /\ \A i \in 1..2 : iban[i] \in Letters
       /\ \A i \in 3..4 : iban[i] \in Digits
       /\ \A i \in 5..Len(iban) : iban[i] \in Letters \cup Digits
       /\ country \in DOMAIN IbanLengths => Len(iban) = IbanLengths[country]
       /\ Mod97(Numeric(Drop(iban, 4) \o SubSeq(iban, 1, 4))) = 1

WeightedSum(d, n) ==
    LET upTo[i \in 0..n] == IF i = 0 THEN 0 ELSE upTo[i - 1] + d[i] * (n + 2 - i)
    IN upTo[n]

\* A check digit without the special case for ten.
CheckDigitPlain(d, n) == (WeightedSum(d, n) * 10) % 11

\* The check digit after the first n digits; a remainder of ten counts as zero.
CheckDigit(d, n) ==
    LET r == (WeightedSum(d, n) * 10) % 11 IN IF r = 10 THEN 0 ELSE r

IsValidCpf(s) ==
    LET d == StripNonDigits(s)
    IN /\ Len(d) = 11
       /\ \E i, j \in 1..11 : d[i] # d[j]
       /\ d[10] = CheckDigit(d, 9)
       /\ d[11] = CheckDigit(d, 10)

----------------------------------------------------------------------------
(* Other formats *)

IsValidEmail(s) ==
    LET v == Trim(s)
    IN \E i \in 2..Len(v) :
          /\ v[i] = AtSign
          /\ \A j \in DOMAIN v \ {i} : v[j] \notin {AtSign, Space}
          /\ \E j \in i + 2..Len(v) - 1 : v[j] = Dot

IsUuid(s) ==
    LET v == Trim(s)
        dashes == {9, 14, 19, 24}
    IN /\ Len(v) = 36
       /\ \A i \in DOMAIN v : IF i \in dashes THEN v[i] = Dash ELSE Upper(v[i]) \in 0..15

IsValidPixKey(s) ==
    IsValidCpf(s) \/ IsValidEmail(s) \/ IsValidBrazilianPhone(s) \/ IsUuid(s)

IsValidBankAccount(s) ==
    LET v == Trim(s)
        alnum == Digits \cup Letters \cup LowerCase
    IN /\ Len(v) \in 4..34
       /\ v[1] \in alnum /\ v[Len(v)] \in alnum
       /\ \A i \in DOMAIN v : v[i] \in alnum \cup Separators
       /\ \E i \in DOMAIN v : v[i] \in Digits

\* 000-000000-000 with optional separators, or 10 to 17 digits and nothing else.
IsValidCostaRicanBankAccount(s) ==
    LET v == Trim(s)
        separators == {<<>>, <<Dash>>, <<Space>>}
    IN \/ \E a, b \in separators :
             /\ Len(v) = 12 + Len(a) + Len(b)
             /\ a = SubSeq(v, 4, 3 + Len(a))
             /\ b = SubSeq(v, 10 + Len(a), 9 + Len(a) + Len(b))
             /\ Len(StripNonDigits(v)) = 12
       \/ Len(v) \in 10..17 /\ \A i \in DOMAIN v : v[i] \in Digits

IsValidBacCredomaticAccount(s) == Len(StripNonDigits(s)) = 10

DefaultValidator(s) == Trim(s) # <<>>

----------------------------------------------------------------------------
(* The rule of a provider *)

\* What the constructor registers: rules by type, country and code ("" for no code).
Validators(type, countryCode, code) ==
    LET key == <<type, countryCode, code>>
    IN CASE key = <<"MOBILE", "CR", "">> -> "CostaRicanPhone"
         [] key = <<"MOBILE", "VE", "">> -> "VenezuelanPhone"
         [] key = <<"PLATFORM", "GLOBAL", "">> -> "Email"
         [] key = <<"PLATFORM", "BR", "">> -> "PixKey"
         [] key = <<"BANK", "GLOBAL", "">> -> "BankAccount"
         [] key = <<"BANK", "PA", "">> -> "PanamaAccount"
         [] key = <<"BANK", "CR", "">> -> "CostaRicanBankAccount"
         [] key = <<"BANK", "CR", "BAC_CR">> -> "BacCredomaticAccount"
         [] OTHER -> "undefined"

NormalizeCountryCode(c) == IF c = "" THEN "GLOBAL" ELSE c

\* A look-up that knows no rule for a type alone.
ResolveValidatorByCountry(p) ==
    LET country == NormalizeCountryCode(p.countryCode)
        exact == Validators(p.type, country, p.code)
        byCountry == Validators(p.type, country, "")
    IN IF p.type = "" THEN "undefined"
       ELSE IF exact # "undefined" THEN exact
       ELSE byCountry

\* The most specific of the registered rules.
ResolveValidator(p) ==
    LET country == NormalizeCountryCode(p.countryCode)
        exact == Validators(p.type, country, p.code)
        byCountry == Validators(p.type, country, "")
    IN IF p.type = "" THEN "undefined"
       ELSE IF exact # "undefined" THEN exact
       ELSE IF byCountry # "undefined" THEN byCountry
       ELSE Validators(p.type, "GLOBAL", "")

IsValid(p, s) ==
    LET rule == ResolveValidator(p)
    IN CASE rule = "CostaRicanPhone" -> IsValidCostaRicanPhone(s)
         [] rule = "VenezuelanPhone" -> IsValidVenezuelanPhone(s)
         [] rule = "Email" -> IsValidEmail(s)
         [] rule = "PixKey" -> IsValidPixKey(s)
         [] rule = "BankAccount" -> IsValidBankAccount(s)
         [] rule = "PanamaAccount" -> IsValidIban(s) \/ IsValidBankAccount(s)
         [] rule = "CostaRicanBankAccount" -> IsValidCostaRicanBankAccount(s)
         [] rule = "BacCredomaticAccount" -> IsValidBacCredomaticAccount(s)
         [] rule = "undefined" -> DefaultValidator(s)

\* validate is called.
Called ==
    /\ call \in Calls
    /\ verdict = "none"

Validate ==
    /\ verdict = "none"
    /\ verdict' = IF IsValid(call.provider, call.identifier) THEN "accepted" ELSE "rejected"
    /\ UNCHANGED call

ValidateSpec == Called /\ [][Validate]_<<call, verdict>>

----------------------------------------------------------------------------
(* Properties *)

\* "any common separator (spaces, dashes, parentheses)".
PhoneSeparators == {Space, Dash, LeftParenthesis, RightParenthesis}

\* The string s writes number n, with separators anywhere and, if plus holds, one plus sign
\* before the first digit; letters, dots and other characters do not occur.
Writes(s, plus, n) ==
    LET P == {i \in DOMAIN s : s[i] = Plus}
    IN /\ n = Keep(s, Characters \ (PhoneSeparators \cup {Plus}))
       /\ IF plus THEN \E i \in P : P = {i} /\ \A j \in 1..i - 1 : s[j] \in PhoneSeparators
                  ELSE P = {}

\* The national numbers the comments of the phone rules describe, without the leading zero
\* of a Venezuelan one.
National(rule, n) ==
    /\ \A i \in DOMAIN n : n[i] \in Digits
    /\ CASE rule = "CostaRicanPhone" -> Len(n) = 8 /\ n[1] \in {6, 7, 8}
         [] rule = "VenezuelanPhone" ->
                Len(n) = 10 /\ SubSeq(n, 1, 3) \in {<<4, 1, 2>>, <<4, 1, 4>>, <<4, 1, 6>>,
                                                   <<4, 2, 4>>, <<4, 2, 6>>}
         [] rule = "PixKey" -> Len(n) = 11 /\ n[1] # 0 /\ n[3] = 9
         [] OTHER -> FALSE

\* The forms of the comments: what is written before a national number, and whether a plus
\* sign is.
Form(plus, prefix) == [plus |-> plus, prefix |-> prefix]

Forms(rule) ==
    CASE rule = "CostaRicanPhone" -> {Form(FALSE, <<>>), Form(TRUE, <<5, 0, 6>>),
                                      Form(FALSE, <<5, 0, 6>>), Form(FALSE, <<0, 0, 5, 0, 6>>)}
      [] rule = "VenezuelanPhone" -> {Form(FALSE, <<0>>), Form(TRUE, <<5, 8>>)}
      [] rule = "PixKey" -> {Form(FALSE, <<>>), Form(TRUE, <<5, 5>>)}
      [] OTHER -> {}

\* Number n is a national number in this form.
InForm(rule, form, n) ==
    IsPrefix(form.prefix, n) /\ National(rule, Drop(n, Len(form.prefix)))

\* The string is a phone number as the comment of its rule describes it.
Documented(rule, s) ==
    LET n == Keep(s, Characters \ (PhoneSeparators \cup {Plus}))
    IN \E form \in Forms(rule) : Writes(s, form.plus, n) /\ InForm(rule, form, n)

\* Its digits are, whatever stands between, before and after them.
DigitsDocumented(rule, s) ==
    \E form \in Forms(rule) : InForm(rule, form, Keep(s, Digits))

\* Every string the comments of the phone rules describe is accepted for a provider of its
\* country: taking a prefix off never spoils a number that has the same digits as part of
\* itself.  This fails for Brazilian area code 55.
AllDocumentedPhonesAccepted ==
    Documented(ResolveValidator(call.provider), call.identifier) => verdict # "rejected"

\* The mobile rules accept nothing but what their comments describe.  This fails for
\* letters, dots and other characters between the digits, which stripNonDigits removes like
\* the documented separators.
OnlyDocumentedPhonesAccepted ==
    LET rule == ResolveValidator(call.provider)
    IN rule \in {"CostaRicanPhone", "VenezuelanPhone"} /\ verdict = "accepted"
           => Documented(rule, call.identifier)

\* A Brazilian national number whose area code has the digits of the country prefix:
\* isValidBrazilianPhone strips them whatever the length.
AreaCode55(rule, s) ==
    LET d == Keep(s, Digits)
    IN rule = "PixKey" /\ Len(d) = 11 /\ SubSeq(d, 1, 2) = <<5, 5>>

\* Every string the comments of the phone rules describe is accepted for a provider of its
\* country, Brazilian national numbers of area code 55 excepted; and the mobile rules
\* accept a string only if its digits, read without everything that is written between
\* them, are those of a described form: taking a prefix off neither spoils a number nor
\* makes one of something else.  Which other characters a string contains the code does
\* not look at.
PhonesAsDocumented ==
    LET rule == ResolveValidator(call.provider)
        s == call.identifier
    IN /\ Documented(rule, s) /\ ~AreaCode55(rule, s) => verdict # "rejected"
       /\ rule \in {"CostaRicanPhone", "VenezuelanPhone"} /\ verdict = "accepted"
            => DigitsDocumented(rule, s)

\* The characters a typing mistake may put in c's place.
Kind(c) == IF c \in Digits THEN Digits ELSE IF c \in Letters THEN Letters ELSE {c}

\* An IBAN that isValidIban accepts is rejected after one character was mistyped as
\* another of its kind, or two neighbours of one kind were swapped: the chunked mod97
\* misses none of these, at any position.
IbanDetectsTypos ==
    LET s == call.identifier
    IN IsValidIban(s) =>
        /\ \A i \in DOMAIN s : \A c \in Kind(s[i]) \ {s[i]} : ~IsValidIban([s EXCEPT ![i] = c])
        /\ \A i \in 1..Len(s) - 1 :
              s[i] # s[i + 1] /\ Kind(s[i]) = Kind(s[i + 1])
                => ~IsValidIban([s EXCEPT ![i] = s[i + 1], ![i + 1] = s[i]])

\* isValidCpf multiplies by ten before it takes the remainder; the official rule takes
\* eleven minus the remainder, and zero for ten and eleven.  They accept the same numbers.
CpfOfficial ==
    LET d == StripNonDigits(call.identifier)
        Official(n) == LET r == WeightedSum(d, n) % 11 IN IF r < 2 THEN 0 ELSE 11 - r
    IN Len(d) = 11 =>
        (IsValidCpf(call.identifier) <=>
            /\ \E i \in 2..11 : d[i] # d[1]
            /\ d[10] = Official(9) /\ d[11] = Official(10))

\* "every bank account is validated with a real engine": whatever its country and code,
\* a bank provider accepts no identifier of less than four characters or without digits.
BanksValidated ==
    call.provider.type = "BANK" /\ verdict = "accepted" =>
        /\ Len(Trim(call.identifier)) >= 4
        /\ StripNonDigits(call.identifier) # <<>>

=============================================================================
