------------------------ MODULE TypedSearchAttributes ------------------------
(***************************************************************************)
(* The translation of an UpsertWorkflowTypedSearchAttributes command into  *)
(* SDK search-attribute updates (handleMessage, src/tests/client.php,      *)
(* lines 362-522), as pure operators, and the reference P8 and the command *)
(* description of spec 4.5 give for it.                                    *)
(*                                                                         *)
(* The command carries a Go map key -> {Type, Operation, Value}; Value is  *)
(* the decoded dynamic value.  A value is a record [kind, x]: kind "nil",  *)
(* "bool", "float64", "int" (int, int8 ... int64), "string", "strings"     *)
(* ([]string) or "list" ([]any, x a sequence of values).  A float64 is     *)
(* kept in halves (x = 2f), so that int64(f) truncation is visible.        *)
(* Strings are the few literals below, named by what strconv.ParseInt and  *)
(* time.Parse(time.RFC3339, _) return for them.                            *)
(***************************************************************************)
EXTENDS Integers, Sequences, SequencesExt

Val(kind, x) == [kind |-> kind, x |-> x]
Attr(type, op, v) == [type |-> type, op |-> op, value |-> v]

AttrTypes == {"Bool", "Float", "Int", "Keyword", "KeywordList", "String",
              "Datetime"}

\* strconv.ParseInt(s, 10, 64) on the strings that parse.
IntStrings == ("12" :> 12) @@ ("-7" :> -7)
\* time.Parse(time.RFC3339, s) on the strings that parse.
TimeStrings == ("2024-05-01T10:00:00Z" :> "t1")

\* int64(f) of a float64 f = h/2: Go truncates toward zero.
Int64OfHalves(h) == IF h >= 0 THEN h \div 2 ELSE -((-h) \div 2)

\* The string elements of a []any, in order (the KeywordList loop).
StringsOf(l) == LET s == SelectSeq(l, LAMBDA e : e.kind = "string")
                IN  [j \in 1 .. Len(s) |-> s[j].x]

\* An SDK SearchAttributeUpdate: ValueSet(x) or ValueUnset().
Upd(k, type, op, x) == [key |-> k, type |-> type, op |-> op, val |-> x]

\* One key's contribution to sau, or the batch's error.
Skip == [fatal |-> FALSE, sau |-> <<>>]
Add(u) == [fatal |-> FALSE, sau |-> <<u>>]
Fatal == [fatal |-> TRUE, sau |-> <<>>]

\* Mutant: a Datetime that does not parse is warned about and skipped.
OnBadDatetimeWarn == Skip
\* return errors.E(op, fmt.Errorf("failed to parse time into RFC3339: %w", err))
OnBadDatetime == Fatal

(* The body of the range loop for one key: the switch on v.Type (no        *)
(* default: an unknown type adds nothing), Unset first, then the nil       *)
(* check, then the type assertion or conversion of each case.              *)
ConvertAttr(k, a) ==
  LET x == a.value
      set(y) == Add(Upd(k, a.type, "set", y))
  IN  IF a.type \notin AttrTypes THEN Skip
      ELSE IF a.op = "unset" THEN Add(Upd(k, a.type, "unset", 0))
      ELSE IF x.kind = "nil" THEN Skip
      ELSE CASE a.type = "Bool" -> IF x.kind = "bool" THEN set(x.x) ELSE Skip
             [] a.type = "Float" -> IF x.kind = "float64" THEN set(x.x) ELSE Skip
             [] a.type = "Int" ->
                  CASE x.kind = "float64" -> set(Int64OfHalves(x.x))
                    [] x.kind = "int" -> set(x.x)
                    [] x.kind = "string" /\ x.x \in DOMAIN IntStrings ->
                         set(IntStrings[x.x])
                    [] OTHER -> Skip
             [] a.type \in {"Keyword", "String"} ->
                  IF x.kind = "string" THEN set(x.x) ELSE Skip
             [] a.type = "KeywordList" ->
                  CASE x.kind = "strings" -> set(x.x)
                    [] x.kind = "list" -> set(StringsOf(x.x))
                    [] OTHER -> Skip
             [] a.type = "Datetime" ->
                  CASE x.kind # "string" -> Skip
                    [] x.x \in DOMAIN TimeStrings -> set(TimeStrings[x.x])
                    [] OTHER -> OnBadDatetime

(* for k, v := range command.SearchAttributes, in the iteration order      *)
(* order: append each key's updates to sau; the first Datetime error       *)
(* returns at once and sau is dropped.                                     *)
RECURSIVE TranslateFrom(_, _, _)
TranslateFrom(order, attrs, sau) ==
  IF order = <<>> THEN [fatal |-> FALSE, sau |-> sau]
  ELSE LET r == ConvertAttr(Head(order), attrs[Head(order)])
       IN  IF r.fatal THEN r ELSE TranslateFrom(Tail(order), attrs, sau \o r.sau)

Translate(order, attrs) == TranslateFrom(order, attrs, <<>>)

\* Go randomises map iteration: every order of the keys is possible.
Orders(attrs) == SetToSeqs(DOMAIN attrs)

\* Mutant: the update list is sent even when it is empty.
NoAttributesSetNever(sau) == FALSE
\* if len(sau) == 0 { warn; return nil }
NoAttributesSet(sau) == sau = <<>>

-----------------------------------------------------------------------------
(* The reference: P8 and the bullet list of spec 4.5, stated per key.      *)

\* The value kinds each type accepts on Set ("Int accepts any numeric").
Accepts == ("Bool" :> {"bool"}) @@ ("Float" :> {"float64"})
        @@ ("Int" :> {"float64", "int", "string"})
        @@ ("Keyword" :> {"string"}) @@ ("String" :> {"string"})
        @@ ("KeywordList" :> {"strings", "list"}) @@ ("Datetime" :> {"string"})

\* "Datetime parses the value as RFC3339; parse failure is fatal for the batch."
RefFatal(attrs) ==
  \E k \in DOMAIN attrs :
    /\ attrs[k].type = "Datetime" /\ attrs[k].op = "set"
    /\ attrs[k].value.kind = "string"
    /\ attrs[k].value.x \notin DOMAIN TimeStrings

\* Keys that yield an update: Unset always; Set with a value of an accepted kind.
RefKeys(attrs) ==
  {k \in DOMAIN attrs :
     LET a == attrs[k] IN
     /\ a.type \in AttrTypes
     /\ \/ a.op = "unset"
        \/ /\ a.value.kind \in Accepts[a.type]
           /\ (a.type = "Int" /\ a.value.kind = "string")
                 => a.value.x \in DOMAIN IntStrings}

\* The value a Set stores: numerics as int64, digit strings parsed, strings of a list.
RefValue(a) ==
  LET x == a.value IN
  CASE a.type = "Int" /\ x.kind = "float64" -> Int64OfHalves(x.x)
    [] a.type = "Int" /\ x.kind = "string" -> IntStrings[x.x]
    [] a.type = "KeywordList" /\ x.kind = "list" -> StringsOf(x.x)
    [] a.type = "Datetime" -> TimeStrings[x.x]
    [] OTHER -> x.x

\* The updates of a batch that is not fatal, as a set.
RefUpdates(attrs) ==
  {IF attrs[k].op = "unset" THEN Upd(k, attrs[k].type, "unset", 0)
   ELSE Upd(k, attrs[k].type, "set", RefValue(attrs[k])) : k \in RefKeys(attrs)}

=============================================================================
