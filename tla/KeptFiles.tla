------------------------------ MODULE KeptFiles ------------------------------
(***************************************************************************)
(* What is kept beside the database: pairs of keys, the token registry and *)
(* the trust configuration, signed checkpoints of the history, bundles of  *)
(* evidence.  They share at most the history, so a behaviour shows what    *)
(* happens to one of them.                                                 *)
(***************************************************************************)
EXTENDS KeyFiles, AuditCheckpoints, EvidenceBundles, Authentication, TLC

CONSTANTS
  MaxSigned,  \* bound on the history that is signed
  MaxHeld     \* bound on the contents a file has during one request

VARIABLE keeps  \* what this behaviour keeps

historyVars == << audit, backup, frozen, now, claim, retained, exports >>
keptVars == << keeps, keyVars, accessVars, historyVars >>

------------------------------------------------------------------------------
(* Instances *)

\* The same pair, the pair the other way round, a shared half, and one name
\* twice.
MCRequests == {<< "a", "b" >>, << "b", "a" >>, << "b", "c" >>, << "a", "a" >>}

\* One person with two subjects at the issuer, one of them with two possible
\* sets of grants; configurations that bind, contradict themselves, and refuse
\* one subject or both for one reason each.
Wide == [name |-> "ada", role |-> "admin"]
Narrow == [name |-> "ada", role |-> "viewer"]

MCGrants == {Wide, Narrow}

Bind(subject, principal) ==
  [subject |-> subject, clients |-> {"page"}, principal |-> principal]

NoTimes == [x \in {} |-> 0]

Plain ==
  [keys |-> {"k1"}, issuer |-> "idp", audience |-> "waivers", leeway |-> 0,
   bindings |-> {Bind("s1", Narrow), Bind("s2", Narrow)}, lifetime |-> 2,
   revoked |-> {}, disabled |-> {}, issued_after |-> NoTimes,
   required_scopes |-> {"openwaiver"}]

MCConfigs == { Plain,
               [Plain EXCEPT !.bindings = {Bind("s1", Wide), Bind("s2", Narrow)}],
               [Plain EXCEPT !.disabled = {"s1"}, !.lifetime = 1],
               [Plain EXCEPT !.revoked = {"j2"}, !.bindings = {Bind("s1", Wide)}],
               [Plain EXCEPT !.issued_after = [x \in {"s1"} |-> 1], !.leeway = 1],
               [Plain EXCEPT !.required_scopes = {"openwaiver", "sign"}],
               [Plain EXCEPT !.issuer = "new"],
               [Plain EXCEPT !.audience = "new"],
               [Plain EXCEPT !.keys = {"k2"}] }

Token(subject, id, iat, exp, nbf, scopes) ==
  [subject |-> subject, id |-> id, iat |-> iat, exp |-> exp, nbf |-> nbf,
   key |-> "k1", issuer |-> "idp", audience |-> "waivers", client |-> "page",
   scopes |-> scopes]

MCSigned == { Token("s1", "j1", 0, 2, Never, {"openwaiver", "sign"}),
              Token("s2", "j2", 1, 3, 2, {"openwaiver"}) }

Interchangeable == Permutations(Commands) \cup Permutations(Secrets)

------------------------------------------------------------------------------
(* What is not kept rests. *)

KeysRest == request = [c \in Callers |-> CHOOSE pair \in Requests : TRUE]

RegistryRests ==
  /\ registry = {}
  /\ config = Plain

\* One text is like the other: which of them comes first is chosen.
HistoryBegins == audit = Recorded(<< >>, "policy", "policy", CHOOSE text \in Texts : TRUE)

KeptInit ==
  /\ keeps \in {"keys", "registry", "federation", "checkpoints", "bundles"}
  /\ KeyInit /\ CheckpointInit /\ BundleInit
  /\ IF keeps \in {"registry", "federation"} THEN AccessInit
     ELSE /\ RegistryRests /\ started = registry
          /\ cache = {} /\ inquiry = Idle
          /\ calls = [p \in Commands |-> Idle]
          /\ clock = 0 /\ answer = Never /\ withdrawn = {}
  /\ keeps = "registry" => config = Plain
  /\ keeps # "keys" => KeysRest
  /\ HistoryBegins

HeldBound == inquiry' # Idle => Cardinality(inquiry'.held) =< MaxHeld

\* A local token is judged by the registry and a signed one by the
\* configuration, so each is shown with the other file at rest, and restarts
\* of the server with the second.  The history that is signed is short and
\* freezes nothing; the one that is exported needs no clock.
KeptNext ==
  /\ \/ /\ keeps = "keys" /\ KeyNext
        /\ UNCHANGED << accessVars, historyVars >>
     \/ /\ keeps = "registry" /\ (RegistryNext \/ RequestNext)
        /\ HeldBound
        /\ UNCHANGED << keyVars, historyVars >>
     \/ /\ keeps = "federation" /\ (ConfigNext \/ RequestNext \/ Start)
        /\ HeldBound
        /\ UNCHANGED << keyVars, historyVars >>
     \/ /\ keeps = "checkpoints" /\ CheckpointNext
        /\ Len(audit') =< MaxSigned /\ frozen' = {}
        /\ UNCHANGED << keyVars, accessVars, exports >>
     \/ /\ keeps = "bundles" /\ BundleNext
        /\ now' = 0
        /\ UNCHANGED << keyVars, accessVars, claim, retained >>
  /\ UNCHANGED keeps

KeptSpec == KeptInit /\ [][KeptNext]_keptVars

==============================================================================
