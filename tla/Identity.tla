------------------------------ MODULE Identity ------------------------------
(***************************************************************************)
(* Names, dates and serial numbers of a card holder: identity.rs and the   *)
(* calendar of iso8601.rs.  A text is the sequence of its characters; what *)
(* the code tells apart of a letter is given by Upper and Expansion.       *)
(***************************************************************************)
EXTENDS Certificates
CONSTANTS
    Upper,                 \* the letters A to Z
    Lower,                 \* from a capital to its small letter
    Expansion,             \* the letters transliterate_char knows, and theirs
    FREE_TEXT_MAX, MRZ_NAME_MAX
ASSUME TextAssumption == FREE_TEXT_MAX \in Nat /\ MRZ_NAME_MAX \in Nat

Digits == {"0", "1", "2", "3", "4", "5", "6", "7", "8", "9"}
DigitValue == [d \in Digits |-> CHOOSE n \in 0..9 : <<"0", "1", "2", "3", "4", "5", "6", "7", "8", "9">>[n + 1] = d]
Separators == {" ", "-"}

(***************************************************************************)
(* Texts                                                                   *)
(***************************************************************************)

\* FreeText::parse, and the newtypes that are made of it: Title, Profession,
\* PersonalSummary, PlaceOfBirth, PermanentAddress, Telephone, ..., Surname.
FreeText(t) == t # <<>> /\ Len(t) <= FREE_TEXT_MAX
NewText(t) == IF FreeText(t) THEN <<t>> ELSE Absent

\* str::split_whitespace, and trim.
Words(t) ==
    LET starts == {i \in DOMAIN t : t[i] # " " /\ (i = 1 \/ t[i - 1] = " ")}
        End(i) == CHOOSE j \in i..Len(t) : (j = Len(t) \/ t[j + 1] = " ") /\ \A m \in i..j : t[m] # " "
        at == SetToSortSeq(starts, <) IN
    [k \in DOMAIN at |-> SubSeq(t, at[k], End(at[k]))]
Trim(t) ==
    LET solid == {i \in DOMAIN t : t[i] # " "} IN
    IF solid = {} THEN <<>> ELSE SubSeq(t, Min(solid), Max(solid))
Join(words, sep) ==
    FlattenSeq([i \in DOMAIN words |-> IF i = 1 THEN words[1] ELSE <<sep>> \o words[i]])
Spaces(t) == [i \in DOMAIN t |-> IF t[i] = "<" THEN " " ELSE t[i]]

\* LegacyUppercaseName::title_case_segments and NativeName.
title_case_segments(t) ==
    [i \in DOMAIN t |-> IF i > 1 /\ t[i - 1] \notin Separators /\ t[i] \in Upper THEN Lower[t[i]] ELSE t[i]]
from_legacy_uppercase(t) == IF FreeText(t) THEN <<title_case_segments(t)>> ELSE Absent

\* GivenNamesText::split: a word that is no name leaves its place to the next.
SplitGivenNames(t) ==
    LET names == SelectSeq(Words(t), FreeText) IN
    [first |-> IF names = <<>> THEN Absent ELSE <<names[1]>>,
     second |-> IF Len(names) < 2 THEN Absent ELSE <<names[2]>>,
     additional |-> SubSeq(names, 3, Len(names))]

\* Dg11FullName::try_split_into_parts: at the first "<<", else the last word
\* is the surname.
try_split_into_parts(t) ==
    LET marks == {i \in 1..(Len(t) - 1) : t[i] = "<" /\ t[i + 1] = "<"}
        m == Min(marks)
        words == Words(Spaces(t))
        raw == IF marks # {}
               THEN <<Trim(Spaces(SubSeq(t, 1, m - 1))), Trim(Spaces(SubSeq(t, m + 2, Len(t))))>>
               ELSE <<words[Len(words)], Join(SubSeq(words, 1, Len(words) - 1), " ")>> IN
    IF marks = {} /\ Len(words) < 2 THEN Absent
    ELSE IF ~FreeText(raw[1]) \/ ~FreeText(raw[2]) \/ SplitGivenNames(raw[2]).first = Absent THEN Absent
    ELSE <<[surname |-> raw[1], given |-> SplitGivenNames(raw[2])]>>

(***************************************************************************)
(* The machine-readable zone                                               *)
(***************************************************************************)

\* MrzNameInput::parse, MrzSurname::new and MrzGivenName::new.
MrzName(t) == t # <<>> /\ Len(t) <= MRZ_NAME_MAX /\ \A i \in DOMAIN t : t[i] \in Upper \cup {"<"}
TrimFillers(t) ==
    LET solid == {i \in DOMAIN t : t[i] # "<"} IN IF solid = {} THEN <<>> ELSE SubSeq(t, 1, Max(solid))
\* MrzSurname::spaced and to_native.
spaced(t) == Spaces(TrimFillers(t))
to_native(t) == from_legacy_uppercase(spaced(t))

\* NativeMrzText::to_mrz, with transliterate_char.
to_mrz(t) ==
    FlattenSeq([i \in DOMAIN t |-> CASE t[i] \in Upper -> <<t[i]>>
                                     [] t[i] \in Separators -> <<"<">>
                                     [] t[i] = "'" -> <<>>
                                     [] t[i] \in DOMAIN Expansion -> Expansion[t[i]]
                                     [] OTHER -> <<"<">>])

\* transliterate_surname: Absent where the expect panics.
transliterate_surname(surname) == IF MrzName(to_mrz(surname)) THEN <<to_mrz(surname)>> ELSE Absent
\* transliterate_given_names.
transliterate_given_names(first, second, additional) ==
    LET names == first \o second \o additional
        joined == Join([i \in DOMAIN names |-> to_mrz(names[i])], "<") IN
    IF MrzName(joined) THEN <<joined>> ELSE Absent

\* MrzSex::from_mrz_byte.
MrzSex(c) == CASE c = "M" -> "Male" [] c = "F" -> "Female" [] OTHER -> "Unspecified"

(***************************************************************************)
(* Dates                                                                   *)
(***************************************************************************)

\* days_in_month.
days_in_month(year, month) ==
    CASE month \in {1, 3, 5, 7, 8, 10, 12} -> 31
      [] month \in {4, 6, 9, 11} -> 30
      [] month = 2 -> IF year % 4 = 0 /\ (year % 100 # 0 \/ year % 400 = 0) THEN 29 ELSE 28
      [] OTHER -> 0
\* validate_calendar and Date::new.
Date_new(year, month, day) ==
    IF year \in 1900..2100 /\ month \in 1..12 /\ day \in 1..days_in_month(year, month)
    THEN <<[year |-> year, month |-> month, day |-> day]>> ELSE Absent
\* check_ascii_digits and AsciiDigits::parse_u16.
AllDigits(t) == \A i \in DOMAIN t : t[i] \in Digits
Number(t) ==
    LET n[i \in 0..Len(t)] == IF i = 0 THEN 0 ELSE 10 * n[i - 1] + DigitValue[t[i]] IN n[Len(t)]
\* Date::from_yyyymmdd.
from_yyyymmdd(t) ==
    IF Len(t) # 8 \/ ~AllDigits(t) THEN Absent
    ELSE Date_new(Number(SubSeq(t, 1, 4)), Number(SubSeq(t, 5, 6)), Number(SubSeq(t, 7, 8)))
\* Date::from_mrz_yymmdd: the century turns at 50.
from_mrz_yymmdd(t) ==
    IF ~AllDigits(t) THEN Absent
    ELSE LET yy == Number(SubSeq(t, 1, 2)) IN
         Date_new(IF yy < 50 THEN 2000 + yy ELSE 1900 + yy, Number(SubSeq(t, 3, 4)), Number(SubSeq(t, 5, 6)))
\* DateTime::from_yyyymmddhhmmss: a leap second is a time.
from_yyyymmddhhmmss(t) ==
    IF Len(t) # 14 \/ ~AllDigits(t) \/ from_yyyymmdd(SubSeq(t, 1, 8)) = Absent THEN Absent
    ELSE IF Number(SubSeq(t, 9, 10)) > 23 \/ Number(SubSeq(t, 11, 12)) > 59 \/ Number(SubSeq(t, 13, 14)) > 60 THEN Absent
    ELSE <<t>>

(***************************************************************************)
(* The certificate's subject against the document                          *)
(***************************************************************************)

\* CredentialIdentity, empty: new.
NoIdentity == [title |-> Absent, first_name |-> Absent, second_name |-> Absent, additional_names |-> <<>>,
               surname |-> Absent, peuin |-> Absent, date_of_birth |-> Absent, printed_serial |-> Absent]

\* verify_emrtd_consistency: for each comparison Absent where a side is
\* missing; cert is a CredentialIdentity, dg11 Absent or the parsed DG11.
verify_emrtd_consistency(cert, full_name, dg11_dob, mrz) ==
    LET parts == IF full_name = Absent THEN Absent ELSE try_split_into_parts(full_name[1])
        given == parts[1].given
        surname == transliterate_surname(cert.surname[1])
        names == transliterate_given_names(cert.first_name, cert.second_name, cert.additional_names) IN
    [panic |-> cert.surname # Absent /\ surname = Absent,
     dg11_surname |-> IF cert.surname = Absent \/ parts = Absent THEN Absent
                      ELSE <<cert.surname[1] = parts[1].surname>>,
     dg11_given |-> IF parts = Absent THEN Absent
                    ELSE <<cert.first_name = given.first /\ cert.second_name = given.second
                             /\ cert.additional_names = given.additional>>,
     mrz_surname |-> IF cert.surname = Absent \/ surname = Absent THEN Absent
                     ELSE <<surname[1] = TrimFillers(mrz.primary_identifier)>>,
     mrz_given |-> IF names = Absent THEN Absent ELSE <<names[1] = TrimFillers(mrz.secondary_identifier)>>,
     dob |-> IF dg11_dob = Absent THEN Absent ELSE <<mrz.date_of_birth = dg11_dob[1]>>]

(***************************************************************************)
(* Serial numbers and labels                                               *)
(***************************************************************************)

\* Peuin::new: eight digits and a check character.
Peuin(t) == IF Len(t) = 9 /\ AllDigits(SubSeq(t, 1, 8)) /\ t[9] \in Digits \cup Upper THEN <<t>> ELSE Absent

\* derive_printed_serial: the tail of a serial with letters, the printed
\* window of a twenty-digit one.
derive_printed_serial(t) ==
    IF \E i \in DOMAIN t : t[i] \in Upper
    THEN IF Len(t) < 9 THEN Absent ELSE <<SubSeq(t, Len(t) - 8, Len(t))>>
    ELSE IF Len(t) = 20 /\ AllDigits(t) THEN <<SubSeq(t, 11, 19)>> ELSE Absent

\* iter_given_names and person_string: the words that are printed.
iter_given_names(id) == id.first_name \o id.second_name \o id.additional_names
person_string(id) == id.surname \o iter_given_names(id) \o id.peuin
=============================================================================
