----------------------------- MODULE PaymentCodes -----------------------------
(***************************************************************************)
(* The codes that customers type and scan: CPF and CNPJ, the lines and     *)
(* bars of boletos, and BR codes.  A text is a sequence of digits, with    *)
(* Letter for anything else but the hyphens of charges' ids.  A state is   *)
(* one code that came in.                                                  *)
(***************************************************************************)
EXTENDS Integers, Sequences, FiniteSetsExt, SequencesExt

CONSTANTS
  Steps,    \* numbers are typed whose digits go up in these steps
  Ids,      \* ids of charges
  Amounts,  \* texts of amounts
  Crcs      \* values of the checksum

Digits == 0 .. 9
Letter == 10
Hyphen == 11
Symbols == 0 .. Hyphen

Tag54 == <<5, 4>>
CrcTag == <<6, 3, 0, 4>>

CodesAssumption ==
  /\ Steps \subseteq Digits
  \* An id is a UUID, which the table's column holds in 36 characters; the length
  \* of a field is written with two digits.
  /\ \A i \in Ids : i \in Seq(Symbols) /\ Len(i) <= 36
  /\ \A a \in Amounts : a \in Seq(Symbols) /\ Len(a) <= 99
  /\ \A c \in Crcs : c \in Seq(Symbols) /\ Len(c) = 4

VARIABLES
  came,      \* "none", "number" or "brcode"
  what,      \* what the number is: "cpf", "cnpj", "line", "bar", "utility"
  number,    \* its digits, without the check digits
  id,        \* the charge of the BR code
  amount,    \* its amount
  checksum,  \* the CRC of its text
  elsewhere, \* the CRC of some other text
  appended   \* the CRC at its end

vars == <<came, what, number, id, amount, checksum, elsewhere, appended>>

Kinds == {"cpf", "cnpj", "line", "bar", "utility"}

TypeOK ==
  /\ came \in {"none", "number", "brcode"}
  /\ what \in Kinds \cup {"none"}
  /\ number \in Seq(Digits)
  /\ id \in Ids \cup {<<>>} /\ amount \in Amounts \cup {<<>>}
  /\ {checksum, elsewhere, appended} \subseteq Crcs \cup {<<>>}

Init ==
  /\ came = "none" /\ what = "none" /\ number = <<>>
  /\ id = <<>> /\ amount = <<>> /\ checksum = <<>> /\ elsewhere = <<>>
  /\ appended = <<>>

-----------------------------------------------------------------------------
(* core/document_validator.py and the check digits of boleto/service.py.   *)

Weighted(d, weight) == SumFunction([i \in DOMAIN d |-> d[i] * weight[i]])

\* The weights 2 to 9, and again from 2, from the last digit on.
TwoToNine(d) == [i \in DOMAIN d |-> 2 + ((Len(d) - i) % 8)]

\* The check digit after d, weighted from Len(d) + 1 down to 2.
CpfDigit(d) ==
  LET remainder == (Weighted(d, [i \in DOMAIN d |-> Len(d) + 2 - i]) * 10) % 11 IN
  IF remainder >= 10 THEN 0 ELSE remainder

CnpjDigit(d) ==
  LET remainder == Weighted(d, TwoToNine(d)) % 11 IN
  IF remainder < 2 THEN 0 ELSE 11 - remainder

Repeated(d) == \A i \in DOMAIN d : d[i] = d[1]

validate_cpf(d) ==
  /\ Len(d) = 11 /\ ~Repeated(d)
  /\ CpfDigit(SubSeq(d, 1, 9)) = d[10] /\ CpfDigit(SubSeq(d, 1, 10)) = d[11]

validate_cnpj(d) ==
  /\ Len(d) = 14 /\ ~Repeated(d)
  /\ CnpjDigit(SubSeq(d, 1, 12)) = d[13] /\ CnpjDigit(SubSeq(d, 1, 13)) = d[14]

\* Faulty variant of Doubled: the digits of a product are not added up.
DoubledOnly(n) == 2 * n

Doubled(n) == IF 2 * n < 10 THEN 2 * n ELSE 2 * n - 9

mod10(d) ==
  LET total == SumFunction([i \in DOMAIN d |->
                              IF (Len(d) - i) % 2 = 0 THEN Doubled(d[i]) ELSE d[i]]) IN
  (10 - (total % 10)) % 10

mod11_bank(d) ==
  LET remainder == Weighted(d, TwoToNine(d)) % 11 IN
  IF remainder \in {0, 1} THEN 1 ELSE 11 - remainder

Field(d, first, last) == mod10(SubSeq(d, first, last)) = d[last + 1]

validate_barcode(d) ==
  \/ Len(d) = 47 /\ Field(d, 1, 9) /\ Field(d, 11, 20) /\ Field(d, 22, 31)
  \/ /\ Len(d) = 44
     /\ d[1] = 8 \/ mod11_bank(RemoveAt(d, 5)) = d[5]
  \/ /\ Len(d) = 48 /\ d[1] = 8
     /\ \A block \in 0 .. 3 : Field(d, 12 * block + 1, 12 * block + 11)

Accepts(k, d) ==
  CASE k = "cpf" -> validate_cpf(d)
    [] k = "cnpj" -> validate_cnpj(d)
    [] OTHER -> validate_barcode(d)

-----------------------------------------------------------------------------
(* BR codes: fields of tag, length and value, one after the other.         *)

Smaller(m, n) == IF m <= n THEN m ELSE n

\* An id without its hyphens.
Stripped(charge) ==
  LET stripped[n \in 0 .. Len(charge)] ==
        IF n = 0 THEN <<>>
        ELSE IF charge[n] = Hyphen THEN stripped[n - 1]
        ELSE Append(stripped[n - 1], charge[n]) IN
  stripped[Len(charge)]

Txid(charge) ==
  LET stripped == Stripped(charge) IN
  SubSeq(stripped, 1, Smaller(25, Len(stripped)))

tlv(tag, text) == tag \o <<Len(text) \div 10, Len(text) % 10>> \o text

\* build_pix_static_emv.  Fixed values are shortened.
build_pix_static_emv(charge, value) ==
  LET gui == tlv(<<0, 0>>, <<Letter>>)
      key == tlv(<<0, 1>>, charge) IN
  tlv(<<0, 0>>, <<0, 1>>) \o tlv(<<0, 1>>, <<1, 1>>)
  \o tlv(<<2, 6>>, gui \o key)
  \o tlv(<<5, 2>>, <<0, 0, 0, 0>>) \o tlv(<<5, 3>>, <<9, 8, 6>>)
  \o tlv(Tag54, value)
  \o tlv(<<5, 8>>, <<Letter>>) \o tlv(<<5, 9>>, <<Letter>>) \o tlv(<<6, 0>>, <<Letter>>)
  \o tlv(<<6, 2>>, tlv(<<0, 5>>, Txid(charge)))
  \o CrcTag

\* _parse_emv_top_level and _walk_tlv: the fields up to the one tagged stop, or
\* to where the text does not read as one.  (int() reads a sign, too: no code has
\* one where a length stands.)
Walk(text, stop) ==
  LET walk[pos \in 1 .. Len(text) + 1] ==
        IF pos + 3 > Len(text) THEN <<>>
        ELSE LET tag == SubSeq(text, pos, pos + 1)
                 length == 10 * text[pos + 2] + text[pos + 3]
                 end == pos + 3 + length IN
             IF \/ tag = stop
                \/ ~({text[pos + 2], text[pos + 3]} \subseteq Digits)
                \/ end > Len(text)
             THEN <<>>
             ELSE <<[tag |-> tag, text |-> SubSeq(text, pos + 4, end)]>>
                  \o walk[end + 1] IN
  walk[1]

Fields(text) == Walk(text, SubSeq(CrcTag, 1, 2))

\* Faulty variant of Read: the tag is searched for anywhere in the text.
Search(text, tag) ==
  LET places == {i \in 1 .. Len(text) - 3 : SubSeq(text, i, i + 1) = tag} IN
  IF places = {} THEN <<>>
  ELSE LET i == Min(places) IN
       SubSeq(text, i + 4, Smaller(Len(text), i + 3 + 10 * text[i + 2] + text[i + 3]))

\* What the dictionary of a text's fields has for a tag.
Read(text, tag) ==
  LET fields == Fields(text)
      found == {i \in DOMAIN fields : fields[i].tag = tag} IN
  IF found = {} THEN <<>> ELSE fields[Max(found)].text

\* The first field with a tag, among all fields.
First(text, tag) ==
  LET fields == Walk(text, <<>>)
      found == {i \in DOMAIN fields : fields[i].tag = tag} IN
  IF found = {} THEN <<>> ELSE fields[Min(found)].text

_parse_emv_value(text) == Read(text, Tag54)
_extract_txid_field62(text) == First(Read(text, <<6, 2>>), <<0, 5>>)

\* The key of field 26, for what is no URL.
parse_emv_pix_key(text) == First(First(text, <<2, 6>>), <<0, 1>>)

\* crc16_ccitt is some function of the text.
crc16_ccitt(text) ==
  IF text = build_pix_static_emv(id, amount) THEN checksum ELSE elsewhere

Occurrences(text) == {i \in 1 .. Len(text) - 3 : SubSeq(text, i, i + 3) = CrcTag}

\* Faulty variant of CrcField: the first place that reads as the tag.
FirstCrcField(text) == Min(Occurrences(text))

\* rfind.
CrcField(text) == Max(Occurrences(text))

_validate_pix_crc(text) ==
  \/ Occurrences(text) = {}
  \/ LET tag == CrcField(text) IN
     SubSeq(text, tag + 4, Smaller(Len(text), tag + 7))
       = crc16_ccitt(SubSeq(text, 1, tag + 3))

-----------------------------------------------------------------------------
(* What comes in.                                                          *)

Lengths == [cpf |-> 9, cnpj |-> 12, line |-> 44, bar |-> 43, utility |-> 44]

Type(k, first, increment) ==
  /\ came = "none"
  /\ came' = "number" /\ what' = k
  /\ number' = [i \in 1 .. Lengths[k] |->
                  IF i = 1 /\ k = "utility" THEN 8 ELSE (first + i * increment) % 10]
  /\ UNCHANGED <<id, amount, checksum, elsewhere, appended>>

Scan(charge, value, c, d, e) ==
  /\ came = "none"
  /\ came' = "brcode"
  /\ id' = charge /\ amount' = value
  /\ checksum' = c /\ elsewhere' = d /\ appended' = e
  /\ UNCHANGED <<what, number>>

Next ==
  \/ \E k \in Kinds, first \in Digits, increment \in Steps : Type(k, first, increment)
  \/ \E charge \in Ids, value \in Amounts, c, d, e \in Crcs : Scan(charge, value, c, d, e)

Spec == Init /\ [][Next]_vars

-----------------------------------------------------------------------------
(* Properties.                                                             *)

\* The number with the check digits that make it right.
Completed(k, d) ==
  CASE k = "cpf" -> LET e == Append(d, CpfDigit(d)) IN Append(e, CpfDigit(e))
    [] k = "cnpj" -> LET e == Append(d, CnpjDigit(d)) IN Append(e, CnpjDigit(e))
    [] k = "bar" -> SubSeq(d, 1, 4) \o <<mod11_bank(d)>> \o SubSeq(d, 5, 43)
    [] k = "line" ->
         SubSeq(d, 1, 9) \o <<mod10(SubSeq(d, 1, 9))>>
         \o SubSeq(d, 10, 19) \o <<mod10(SubSeq(d, 10, 19))>>
         \o SubSeq(d, 20, 29) \o <<mod10(SubSeq(d, 20, 29))>>
         \o SubSeq(d, 30, 44)
    [] k = "utility" ->
         [i \in 1 .. 48 |->
           LET block == (i - 1) \div 12 IN
           IF i % 12 = 0 THEN mod10(SubSeq(d, 11 * block + 1, 11 * block + 11))
           ELSE d[i - block]]

\* Where a wrong digit can pass: a check digit of a document stands for two
\* remainders when it is zero, and the second one of a CPF does not depend on
\* the first digit; the verifier of a bar code stands for three remainders when
\* it is one; a bar that seems to be a utility's is not verified; and in a typed
\* line nothing after the third field is.
Unguarded(k, right, i, digit) ==
  CASE k = "cpf" -> right[10] = 0 /\ (right[11] = 0 \/ i = 1)
    [] k = "cnpj" -> right[13] = 0 /\ right[14] = 0
    [] k = "line" -> i > 32
    [] k = "bar" -> right[1] = 8 \/ right[5] = 1 \/ (i = 1 /\ digit = 8)
    [] k = "utility" -> FALSE

\* Right numbers are accepted, and no slip of one digit makes one that is, but
\* where the check digits cannot tell.
TyposAreCaught ==
  came = "number" =>
    LET right == Completed(what, number) IN
    /\ Repeated(right) \/ Accepts(what, right)
    /\ \A i \in DOMAIN right : \A digit \in Digits \ {right[i]} :
         Accepts(what, [right EXCEPT ![i] = digit])
           => Unguarded(what, right, i, digit)

\* The amount, the charge and the key are read back as they were written,
\* whatever tags the charge's id happens to spell.
WrittenIsRead ==
  came = "brcode" =>
    LET text == build_pix_static_emv(id, amount) \o appended IN
    /\ _parse_emv_value(text) = amount
    /\ _extract_txid_field62(text) = Txid(id)
    /\ parse_emv_pix_key(text) = id

\* A BR code passes if and only if its checksum is right, but for the one whose
\* right checksum reads as the tag of the checksum: it is refused.
ChecksumDecides ==
  came = "brcode" =>
    (_validate_pix_crc(build_pix_static_emv(id, amount) \o appended)
       <=> appended = checksum /\ checksum # CrcTag)
=============================================================================
