--------------------------- MODULE MCRequestPipeline ---------------------------
(* RequestPipeline with two requests, two keys and two tenants. *)
EXTENDS RequestPipeline, TLC

CONSTANTS r1, r2, k1, k2, x1, db1

NoKeyId == "none"

(* The claims "A" and "a" are one tenant to the middleware; "!" is none. *)
SanitizedNames == ("" :> "") @@ ("public" :> "public") @@ ("A" :> "a") @@ ("a" :> "a")
                  @@ ("b" :> "b") @@ ("!" :> "")

AllScopes == {"matches:read", "matches:write", "advice:read"}

Hs(tenant, scopes) == [alg |-> "HS", kid |-> NoKeyId, genuine |-> TRUE, claims |-> TRUE,
                       age |-> "fresh", tenant |-> tenant, scopes |-> scopes]
Rs(kid, tenant)    == [Hs(tenant, AllScopes) EXCEPT !.alg = "RS", !.kid = kid]

Good       == Hs("A", AllScopes)
OtherGood  == Hs("b", AllScopes)
Public     == Hs("public", AllScopes)
SomeTokens ==
    {Good, OtherGood,
     Hs("a", {"matches:read"}), Hs("!", AllScopes), Hs("", AllScopes),
     [Good EXCEPT !.claims = FALSE], [Good EXCEPT !.genuine = FALSE],
     [Good EXCEPT !.age = "late"],
     Rs(k1, "A"), Rs(k2, "b")}
AllTokens == SomeTokens \cup {Public}

AskFor(route, ext, item) ==
    [route |-> route, ext |-> ext, item |-> item, health |-> route = "live", fits |-> TRUE]

(* The same with "health" in the URL, and with a value the database refuses. *)
OnHealthUrl(a) == [a EXCEPT !.health = TRUE]
Unfit(a)       == [a EXCEPT !.fits = FALSE]

SomeAsks ==
    {AskFor("createMatch", "e", NoKeyId), AskFor("createMatch", "", NoKeyId),
     AskFor("getMatch", "", x1), AskFor("getMatch", "", r1),
     AskFor("listMatches", "", NoKeyId), AskFor("listAdvice", "", NoKeyId),
     AskFor("getAdvice", "", x1), AskFor("live", "", NoKeyId)}

SeedRows == {[id |-> x1, table |-> "advice", tenant |-> "b", ext |-> ""],
             [id |-> x1, table |-> "matches", tenant |-> "a", ext |-> ""]}

(* Tokens only one of middleware and guards accepts, on URLs that matter to  *)
(* the middleware, and questions the database cannot answer.                *)
HealthAsks ==
    {OnHealthUrl(AskFor("createMatch", "", NoKeyId)), OnHealthUrl(AskFor("getMatch", "", x1)),
     OnHealthUrl(AskFor("listMatches", "", NoKeyId)), OnHealthUrl(AskFor("live", "", NoKeyId))}
UnfitAsks ==
    {Unfit(AskFor("createMatch", "", NoKeyId)), Unfit(AskFor("getMatch", "", NoKeyId)),
     Unfit(AskFor("listAdvice", "", NoKeyId)), OnHealthUrl(Unfit(AskFor("getAdvice", "", NoKeyId)))}
HealthTokens == {Good, [Good EXCEPT !.age = "late"], Rs(k1, "A")}
AllAsks      == SomeAsks \cup HealthAsks \cup UnfitAsks

FewTokens == {Good, OtherGood}
FewAsks   == {AskFor("createMatch", "e", NoKeyId), AskFor("getMatch", "", x1),
              AskFor("listMatches", "", NoKeyId), AskFor("getAdvice", "", x1)}

Deployment(injected, enforced, faults, tokens, asks) ==
    [secret |-> "shared", injected |-> injected, enforced |-> enforced, faults |-> faults,
     tokens |-> tokens, asks |-> asks]

(* The public key of the provider in place of the shared secret. *)
ProviderKey(k) ==
    [Deployment(FALSE, FALSE, {"jwks", "rotate"}, {Rs(k1, "A"), Rs(k2, "b"), Good},
                {AskFor("getMatch", "", x1), AskFor("live", "", NoKeyId)})
        EXCEPT !.secret = k]

SomeEnvironments ==
    {Deployment(FALSE, FALSE, {}, SomeTokens, SomeAsks),
     Deployment(FALSE, TRUE, {}, FewTokens, FewAsks),
     Deployment(TRUE, TRUE, {}, FewTokens, FewAsks),
     Deployment(TRUE, TRUE, {}, {Good, Public}, FewAsks),
     Deployment(FALSE, FALSE, {"db"}, FewTokens, FewAsks),
     Deployment(FALSE, FALSE, {}, HealthTokens, HealthAsks \cup UnfitAsks),
     Deployment(TRUE, TRUE, {}, HealthTokens, HealthAsks),
     ProviderKey(k1), ProviderKey(k2)}

AsDeployed == {Deployment(FALSE, FALSE, {}, SomeTokens, SomeAsks)}

===============================================================================
