---------------------------- MODULE MCGoCommand ----------------------------
(***************************************************************************)
(* Two registered providers, the second of which may choose its own model, *)
(* and one that a formatter may name but the registry does not know.       *)
(***************************************************************************)
EXTENDS GoCommand, TLC

CONSTANTS codex, agy, ghost, gpt, other, sonnet, opus, research, review

To(p, m) == [provider |-> p, model |-> m]

MCFallback == To(codex, gpt)

\* The formatter of the repository.
Shipped ==
    [modelAliasMap |-> sonnet :> To(codex, gpt) @@ opus :> To(agy, No),
     roleHintRules |-> research :> agy @@ review :> codex,
     fallback |-> MCFallback,
     listed |-> {codex, agy},
     providerModels |-> codex :> <<gpt>> @@ agy :> <<>> @@ ghost :> <<>>]

\* The second provider lists models, and an alias has the wrong one.
Listing ==
    [Shipped EXCEPT
        !.modelAliasMap = sonnet :> To(codex, gpt) @@ opus :> To(agy, No),
        !.providerModels = codex :> <<gpt>> @@ agy :> <<other>> @@
                           ghost :> <<>>]

\* An alias to a provider that is not known, a hint without a rule.
Unknown ==
    [Shipped EXCEPT
        !.modelAliasMap = sonnet :> To(ghost, other) @@ opus :> To(ghost, No),
        !.roleHintRules = research :> No @@ review :> codex]

MCFormatters == {Shipped, Listing, Unknown}
=============================================================================
