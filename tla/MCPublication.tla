--------------------------- MODULE MCPublication ---------------------------
(***************************************************************************)
(* An instance of Publication for TLC: three settings of every form.  The  *)
(* first has the key of a feature flag, but any may have the content type  *)
(* of one; list is flattened to list:0 and list:1, app:List:0 is trimmed   *)
(* to list:0, and all flags of the .NET schema have the id beta.           *)
(***************************************************************************)
EXTENDS Publication

Marker  == <<".appconfig.featureflag/">>
KeysSeen == <<Marker \o <<"beta">>, <<"list">>, <<"app:", "List", "0">>>>
AppPrefix == <<<<"app:">>>>

PiecesSeen == {".appconfig.featureflag/", "beta", "list", "List", "0", "1", "app:", "FeatureManagement"}
LowerCase == [p \in PiecesSeen |-> IF p = "List" THEN "list" ELSE p]

Form(type, schema) ==
    [type |-> type, schema |-> schema, leaves |-> {<<"0">>, <<"1">>}, flag |-> {<<"beta">>}]

\* Under the key of a flag the JSON forms pass two adapters.
FormsSeen == {Form("flag", "dotnet"), Form("flag", "microsoft"), Form("flag", "malformed"),
              Form("none", "noid"), Form("keyvaultref", "dotnet"),
              Form("json", "microsoft"), [Form("json", "noid") EXCEPT !.leaves = {}]}
=============================================================================
