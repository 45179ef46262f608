----------------------------- MODULE JsonAccess -----------------------------
(***************************************************************************)
(* The lookups of EPLJSONUtils.h in messages and settings.                 *)
(*                                                                         *)
(* A JSON value is a record of its kind and its value; the value of an     *)
(* object is a function from its names.  Integers are 64-bit when parsed,  *)
(* and GetIntByName converts to an int: here one of -Half..Half-1, in      *)
(* two's complement.                                                       *)
(***************************************************************************)
EXTENDS Integers

CONSTANT Half

ASSUME HalfAssumption == Half \in Nat \ {0}

Object(fields) == [is |-> "object", value |-> fields]
String(s) == [is |-> "string", value |-> s]
Integer(n) == [is |-> "integer", value |-> n]
Null == [is |-> "null", value |-> 0]

NoFields == <<>>

Int32 == -Half .. Half - 1
ToInt(n) == ((n + Half) % (2 * Half)) - Half

\* The value of a field if it exists and has the right kind.
Lookup(json, name, kind, default) ==
  IF name \in DOMAIN json /\ json[name].is = kind THEN json[name].value ELSE default

\* An object that is not found leaves the caller's json as it was: null, in
\* which nothing is found either.
GetObjectByName(json, name) == Lookup(json, name, "object", NoFields)
GetStringByName(json, name) == Lookup(json, name, "string", "")

\* Fault: the number is used as it was parsed.
GetNumberByName(json, name) == Lookup(json, name, "integer", 0)

GetIntByName(json, name) == ToInt(Lookup(json, name, "integer", 0))
=============================================================================
