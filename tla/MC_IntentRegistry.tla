-------------------------- MODULE MC_IntentRegistry --------------------------
(* Instances of IntentRegistry for TLC. *)
EXTENDS IntentRegistry

CONSTANTS k1, k2

Definition(action, mimeType, vendor, kernel, priority, mode) ==
  [action |-> <<action>>, mimeType |-> mimeType, scope |-> <<"main">>, kernel |-> <<kernel>>,
   vendor |-> vendor, priority |-> priority, mode |-> mode]

\* Two vendors of one action, the first also with a higher priority, the
\* second also with another mode, a definition of another action, and one
\* without a template.
SomeDefinitions ==
  {Definition("open", <<"text">>, <<>>, "page", Undefined, Undefined),
   Definition("open", <<"text">>, <<>>, "page", 1, Undefined),
   Definition("open", <<"text">>, <<"acme">>, "page", Undefined, "detached"),
   Definition("edit", <<"text">>, <<>>, "page", Undefined, Undefined),
   Definition("open", <<"text">>, <<"acme">>, "cli", Undefined, Undefined)}

SomeTokens == {"open", "edit", "text", "main", "page", "cli", "acme"}

PageTemplate == {<<<<"main">>, <<"page">>>>}

SomeQueries ==
  {[action |-> Undefined, mimeType |-> <<"text">>, vendor |-> Undefined],
   [action |-> <<"open">>, mimeType |-> <<"text">>, vendor |-> <<"acme">>]}

TwoCalls == {k1, k2}
Alike == Permutations(TwoCalls)
=============================================================================
