-------------------------- MODULE CellValuesProofs --------------------------
(***************************************************************************)
(* Lemmas about the conversions, for every choice of texts, amounts and    *)
(* dates.                                                                  *)
(***************************************************************************)
EXTENDS CellValues, TLAPS

(* A mapped status is one of the ten, whatever the sheet says. *)
LEMMA MapExcelStatusType ==
    ASSUME NEW raw PROVE MapExcelStatus(raw) \in Statuses
BY DEF MapExcelStatus, Statuses

(* What a ticket may hold, a cell may say.                                  *)
LEMMA TicketValuesAreWords ==
    ASSUME NEW type \in Types PROVE TicketValues(type) \subseteq Words
BY DEF Types, TicketValues, Words

(* Whatever is typed into a cell, applying it to a ticket leaves a value of *)
(* the column's type, and so does importing it.                             *)
LEMMA SetTicketFieldType ==
    ASSUME NEW type \in Types, NEW raw \in Words, NEW old \in TicketValues(type),
           type \in {"text", "custom"} => raw \in Texts \cup {""}
    PROVE  /\ SetTicketField(type, raw, old) \in TicketValues(type)
           /\ ImportField(type, raw, old) \in TicketValues(type)
BY MapExcelStatusType
   DEF Types, TicketValues, SetTicketField, ImportField, ParseCurrency, ParseBool

(* applyCreate starts a ticket with a value of each column's type.          *)
LEMMA NewTicketValueType ==
    ASSUME NEW type \in Types PROVE NewTicketValue(type) \in TicketValues(type)
BY DEF Types, NewTicketValue, TicketValues, Statuses

(* Under its default transform a cell reads as a value of the column's type. *)
LEMMA CanonicalValueType ==
    ASSUME NEW type \in Types, NEW raw \in Words,
           type \in {"text", "custom"} => raw \in Texts \cup {""}
    PROVE  CanonicalValue(raw, TransformFor(type)) \in TicketValues(type)
BY MapExcelStatusType
   DEF Types, TicketValues, CanonicalValue, TransformFor, ParseCurrency, ParseBool

(* formatFieldValue writes words to the sheet.                              *)
LEMMA FormatFieldValueType ==
    ASSUME NEW type \in Types, NEW v \in TicketValues(type)
    PROVE  /\ FormatFieldValue(type, v) \in Words
           /\ type \in {"text", "custom"} => FormatFieldValue(type, v) \in Texts \cup {""}
<1>1. v \in Words
  BY TicketValuesAreWords
<1>2. FormatFieldValue(type, v) \in Words
  BY <1>1 DEF Types, FormatFieldValue, Words
<1>3. type \in {"text", "custom"} => FormatFieldValue(type, v) \in Texts \cup {""}
  BY DEF TicketValues, FormatFieldValue
<1> QED BY <1>2, <1>3

(* Texts, custom fields, amounts and yes/no columns survive the trip to the *)
(* sheet and back.  (Dates and statuses do not: a date that does not parse  *)
(* is not applied, and most status words are read back as "open".)          *)
THEOREM FourTypesRoundTrip ==
    ASSUME NEW type \in {"text", "custom", "currency", "bool"} PROVE RoundTrips(type)
<1>1. ASSUME NEW v \in TicketValues(type)
      PROVE  CanonicalValue(FormatFieldValue(type, v), TransformFor(type)) = v
  BY ValuesAssumption
     DEF TicketValues, CanonicalValue, FormatFieldValue, TransformFor, ParseCurrency, ParseBool
<1>2. ASSUME NEW raw \in Words, NEW old \in Words
      PROVE  SetTicketField(type, raw, old) = CanonicalValue(raw, TransformFor(type))
  BY DEF CanonicalValue, SetTicketField, TransformFor, ParseCurrency, ParseBool
<1> QED BY <1>1, <1>2 DEF RoundTrips

(* The verdict on a field, read back: who changed what. *)
LEMMA VerdictMeaning ==
    ASSUME NEW base, NEW sheet, NEW db
    PROVE  /\ ClassifyField(base, sheet, db) = "agree" <=> sheet = db
           /\ ClassifyField(base, sheet, db) = "sheetWins" <=> sheet # db /\ db = base
           /\ ClassifyField(base, sheet, db) = "dbWins" <=> sheet # db /\ sheet = base
           /\ ClassifyField(base, sheet, db) = "conflict" <=>
                 sheet # db /\ sheet # base /\ db # base
BY DEF ClassifyField
=============================================================================
