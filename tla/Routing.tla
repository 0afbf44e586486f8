------------------------------ MODULE Routing ------------------------------
(***************************************************************************)
(* How `aco delegate` of the Go runtime chooses a provider and a model     *)
(* (internal/delegate/config.go): an agent's front matter names a model    *)
(* alias and a role hint, .aco/formatter.yaml says what they mean.         *)
(***************************************************************************)
EXTENDS Naturals, Sequences

CONSTANTS
    Providers, Models, Aliases, Hints,
    No               \* the empty string: no name given

ASSUME NamesAssumption ==
    No \notin Providers \cup Models \cup Aliases \cup Hints

Routes == [provider: Providers \cup {No}, model: Models \cup {No}]
NoRoute == [provider |-> No, model |-> No]

AgentSpecs == [modelAlias: Aliases \cup {No}, roleHint: Hints \cup {No}]

\* A map of the file as a function that is total: an absent alias leads to
\* NoRoute, an absent rule prefers No, a provider may be listed without models.
FormatterFields == {"modelAliasMap", "roleHintRules", "fallback", "listed",
                    "providerModels"}

IsFormatter(f) ==
    /\ DOMAIN f = FormatterFields
    /\ f.modelAliasMap \in [Aliases -> Routes]
    /\ f.roleHintRules \in [Hints -> Providers \cup {No}]
    /\ f.fallback \in [provider: Providers, model: Models]
    /\ f.listed \in SUBSET Providers
    /\ f.providerModels \in [Providers -> Seq(Models)]
    /\ \A p \in Providers \ f.listed : f.providerModels[p] = <<>>

\* What --no-formatter stands for.
DefaultFormatter(fallback) ==
    [modelAliasMap |-> [a \in Aliases |-> NoRoute],
     roleHintRules |-> [h \in Hints |-> No],
     fallback |-> fallback,
     listed |-> {},
     providerModels |-> [p \in Providers |-> <<>>]]

\* A provider that is listed without models chooses its model itself.
RequiresModel(f, p) == ~(p \in f.listed /\ f.providerModels[p] = <<>>)

Lists(f, p, m) == \E i \in 1..Len(f.providerModels[p]) :
                      f.providerModels[p][i] = m

SupportsModel(f, p, m) ==
    m # No /\ (f.providerModels[p] = <<>> \/ Lists(f, p, m))

AliasRoute(f, spec) ==
    IF spec.modelAlias = No THEN NoRoute ELSE f.modelAliasMap[spec.modelAlias]

Preferred(f, spec) ==
    IF spec.roleHint = No THEN No ELSE f.roleHintRules[spec.roleHint]

\* Mutation: whatever model the alias named comes along.
ModelFor_Kept(f, p, m) == IF m = No THEN f.fallback.model ELSE m

\* The model a provider is given that the hint has moved a route to.
ModelFor(f, p, m) ==
    IF SupportsModel(f, p, m) THEN m
    ELSE IF f.providerModels[p] # <<>> THEN f.providerModels[p][1]
    ELSE f.fallback.model

HintedRoute(f, spec) ==
    LET route == AliasRoute(f, spec)
        p == Preferred(f, spec)
    IN IF p \in {No, route.provider} THEN route
       ELSE [provider |-> p, model |-> ModelFor(f, p, route.model)]

Complete(f, route) ==
    /\ route.provider # No
    /\ route.model = No => ~RequiresModel(f, route.provider)

\* NoRoute stands for "unable to resolve provider/model".
Resolve(f, spec) ==
    LET route == HintedRoute(f, spec)
    IN IF Complete(f, route) THEN route
       ELSE IF Complete(f, f.fallback) THEN f.fallback ELSE NoRoute
=============================================================================
