---------------------- MODULE MCPaymentMethodValidator ----------------------
(***************************************************************************)
(* Calls of the validator.  A template gives the set of characters at each *)
(* position; all identifiers that match it are tried.                      *)
(***************************************************************************)
EXTENDS PaymentMethodValidator

Matching(template) ==
    LET upTo[i \in 0..Len(template)] ==
            IF i = 0 THEN {<<>>} ELSE {Append(s, c) : s \in upTo[i - 1], c \in template[i]}
    IN upTo[Len(template)]

Provider(type, country, code) == [type |-> type, countryCode |-> country, code |-> code]

Try(providers, templates) ==
    {[provider |-> p, identifier |-> s] :
        p \in providers, s \in UNION {Matching(t) : t \in templates}}

Fixed(s) == [i \in DOMAIN s |-> {s[i]}]
Some(n) == [i \in 1..n |-> {1, 8}]
\* A separator that the comments name, and a letter, which they do not.
Between == {RightParenthesis, 37}
PhoneTail == <<Between>> \o Fixed(<<4, 5, 6, 7>>)

----------------------------------------------------------------------------
(* Phones: prefixes, a variable beginning, lengths around the right one *)

CostaRicanCalls ==
    Try({Provider("MOBILE", "CR", ""), Provider("MOBILE", "VE", "")},
        {prefix \o <<0..9>> \o Some(n) \o PhoneTail :
            prefix \in {<<>>, Fixed(<<LeftParenthesis, Plus, 5, 0, 6, RightParenthesis>>),
                        Fixed(<<5, 0, 6, Space>>), Fixed(<<0, 0, 5, 0, 6>>),
                        <<{0, 5}, {0}, {5}, {0, 6}, {6}>>},
            n \in 2..4})

VenezuelanCalls ==
    Try({Provider("MOBILE", "VE", ""), Provider("MOBILE", "CR", "")},
        {prefix \o <<{4, 5}, {1, 2}, {2, 3, 4, 6}, {Dash}>> \o Some(n) \o PhoneTail :
            prefix \in {<<>>, <<{0, 5}>>, Fixed(<<Plus, 5, 8, Dash>>), Fixed(<<5, 8, 0>>)},
            n \in 2..4})

BrazilianCalls ==
    Try({Provider("PLATFORM", "BR", "")},
        {prefix \o <<{0, 1, 5}, {0, 5}, {8, 9}>> \o Some(4) \o PhoneTail :
            prefix \in {<<>>, Fixed(<<Plus, 5, 5, Space>>)}})

----------------------------------------------------------------------------
(* Bank accounts, cards and keys *)

\* NO is a country of the table, with the shortest IBAN; PA is not in the table.
IbanCalls ==
    Try({Provider("BANK", "PA", "")},
        {Fixed(<<23, 24>>) \o <<0..9, 0..9>> \o Fixed(<<8, 6, 0, 1, 1, 1, 1, 7, 9, 4>>) \o <<0..1>>,
         Fixed(<<25, 10>>) \o <<0..9, 0..9, {11, 12}, {10, 35}>> \o Fixed(<<0, 1, 2, 3, 4, 5, 6, 7, 8>>)
            \o <<{9, 20}>> \o Fixed(<<1>>)})

CpfCalls ==
    Try({Provider("PLATFORM", "BR", "")},
        {<<0..9>> \o Fixed(<<1, 1, Dot, 1, 1, 1, Dot, 1, 1>>) \o <<{0, 1}, {Dash}, 0..9, 0..9>>})

BankCalls ==
    Try({Provider("BANK", c, k) : c \in {"", "CR", "PA", "VE"}, k \in {"", "BAC_CR"}}
            \cup {Provider("PLATFORM", "VE", ""), Provider("", "", ""), Provider("MOBILE", "PA", "")},
        {[i \in 1..n |-> {1}] : n \in 0..18}
            \cup {<<{1, 10, Dash}>> \o [i \in 1..n |-> {1, 36, Dash, Space}] : n \in 1..3}
            \cup {Fixed(<<1, 1, 1>>) \o <<{Dash, 1}>> \o Fixed(<<2, 2, 2, 2, 2, 2>>) \o <<{Dash, Space, 10}>>
                    \o Fixed(<<3, 3, 3>>),
                 Fixed(<<10, AtSign, 11, Dot, 12>>),
                 <<{Space}, {10}, {AtSign, Dot}, {11}, {AtSign, Dot}, {12}>>})

MCIbanLengths == <<23, 24>> :> 15 @@ <<12, 27>> :> 22

PhoneCalls == CostaRicanCalls \cup VenezuelanCalls \cup BrazilianCalls

AllCalls == PhoneCalls \cup IbanCalls \cup CpfCalls \cup BankCalls

=============================================================================
