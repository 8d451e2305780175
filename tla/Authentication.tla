--------------------------- MODULE Authentication ----------------------------
(***************************************************************************)
(* Who a request acts for: the token registry, which the command line      *)
(* extends (cli.py, write_auth) and administrators edit, the federation    *)
(* configuration, which they replace, and the server, which reads them     *)
(* again for every request (api.py, access.py, federation.py).  A request  *)
(* takes three steps, with replacements of the files between them: it      *)
(* arrives, its file is read (a configuration through the cache of those   *)
(* already parsed), and its token is judged by what was read.  Requests    *)
(* share only that cache, so one at a time is followed.  A signed token is *)
(* a record of its claims with the key that signed it: cryptography is     *)
(* external.  What pure parsing refuses (duplicate JSON keys, sizes,       *)
(* header fields) is left out.                                             *)
(***************************************************************************)
EXTENDS Integers, FiniteSets

CONSTANTS
  Commands,      \* command-line processes
  Secrets,       \* random local tokens
  Signed,        \* access tokens with their claims
  Grants,        \* principals: name, role and projects
  Configs,       \* federation configurations
  Expiries,      \* when added tokens expire
  Never,         \* no expiry, no answer, nothing read, an absent claim
  Idle,          \* a process that is not adding a token, a server at rest
  Torn,          \* content that is no JSON
  RecordLimit,   \* records a registry may have
  CacheLimit,    \* maxsize of the cache of parsed configurations
  LastTime       \* bound on the clock

ASSUME AccessAssumption ==
  /\ LastTime \in Nat /\ RecordLimit \in Nat /\ CacheLimit \in Nat \ {0}
  /\ Secrets \cap Signed = {}

VARIABLES
  registry,   \* content of the token registry
  config,     \* content of the trust configuration
  started,    \* the records the server read when it started
  cache,      \* configurations parsed by this server, with their keys
  inquiry,    \* the request whose caller is being established
  calls,      \* what each process is about to write
  clock,
  answer,     \* the request being given its principal, if any
  withdrawn   \* local tokens an administrator has revoked or removed

accessVars ==
  << registry, config, started, cache, inquiry, calls, clock, answer, withdrawn >>

TokenRecord(secret, grant, expires) ==
  [secret |-> secret, grant |-> grant, expires |-> expires, revoked |-> FALSE]

Active(record) == ~record.revoked /\ (record.expires # Never => clock < record.expires)

\* validate_records: an empty or overlong registry is refused as a whole.
ValidRecords(content) ==
  /\ Cardinality(content) \in 1 .. RecordLimit
  /\ \A a, b \in content : a.secret = b.secret => a = b

------------------------------------------------------------------------------
(* What a request has before it *)

IsLocal(token) == token \notin Signed

\* What the file that decides about a token says of it: its records in the
\* registry, or the configuration.
About(token, records, content) ==
  IF IsLocal(token) THEN {r \in records : r.secret = token} ELSE content

\* A file changes while a request is under way; held is kept for the
\* properties below.
Noticed(records, content) ==
  IF inquiry = Idle THEN Idle
  ELSE [inquiry EXCEPT !.held = @ \cup {About(inquiry.token, records, content)}]

------------------------------------------------------------------------------
(* write_auth *)

\* Read the registry and add a record in memory, under no lock.
ReadRegistry(p, secret, grant, expires) ==
  /\ calls[p] = Idle
  /\ \A r \in registry : r.secret # secret
  /\ \A q \in Commands : calls[q] # Idle => calls[q].secret # secret
  /\ calls' = [calls EXCEPT ![p] =
       [secret |-> secret, written |-> FALSE,
        content |-> registry \cup {TokenRecord(secret, grant, expires)}]]
  /\ answer' = Never
  /\ UNCHANGED << registry, config, started, cache, inquiry, clock, withdrawn >>

\* A temporary file of its own name receives the content.
WriteTemporary(p) ==
  /\ calls[p] # Idle
  /\ calls' = [calls EXCEPT ![p].written = TRUE]
  /\ answer' = Never
  /\ UNCHANGED << registry, config, started, cache, inquiry, clock, withdrawn >>

Replace(p) ==
  /\ calls[p] # Idle
  /\ calls[p].written
  /\ registry' = calls[p].content
  /\ calls' = [calls EXCEPT ![p] = Idle]
  /\ inquiry' = Noticed(registry', config)
  /\ answer' = Never
  /\ UNCHANGED << config, started, cache, clock, withdrawn >>

\* A full disk, an interrupt or a crash: the temporary file is left behind.
GiveUp(p) ==
  /\ calls[p] # Idle
  /\ calls' = [calls EXCEPT ![p] = Idle]
  /\ answer' = Never
  /\ UNCHANGED << registry, config, started, cache, inquiry, clock, withdrawn >>

------------------------------------------------------------------------------
(* Administrators replace files, as docs/V0.2.md:33 tells them to. *)

Withdraw(record, kept) ==
  /\ record \in registry
  /\ registry' = (registry \ {record}) \cup kept
  /\ withdrawn' = withdrawn \cup {record.secret}
  /\ inquiry' = Noticed(registry', config)
  /\ answer' = Never
  /\ UNCHANGED << config, started, cache, calls, clock >>

Configure(content) ==
  /\ config' = content
  /\ inquiry' = Noticed(registry, config')
  /\ answer' = Never
  /\ UNCHANGED << registry, started, cache, calls, clock, withdrawn >>

------------------------------------------------------------------------------
(* Trust in a configuration *)

\* FederationConfig.trust: one binding per subject, one set of grants per name.
Trusted(content) ==
  /\ content # Torn
  /\ \A a, b \in content.bindings :
       /\ a.subject = b.subject => a = b
       /\ a.principal.name = b.principal.name => a.principal = b.principal

\* jwt.decode: signature, issuer, audience and times, with the leeway of the
\* configuration.
Decodes(token, c) ==
  /\ token.key \in c.keys
  /\ token.issuer = c.issuer /\ token.audience = c.audience
  /\ clock < token.exp + c.leeway
  /\ token.iat =< clock + c.leeway
  /\ token.nbf # Never => token.nbf =< clock + c.leeway

BoundBy(token, c, principal) ==
  \E b \in c.bindings : /\ b.subject = token.subject
                        /\ token.client \in b.clients
                        /\ principal = b.principal

\* validate_access_token
Validates(token, c, principal) ==
  /\ Decodes(token, c)
  /\ token.exp - token.iat \in 1 .. c.lifetime
  /\ token.id \notin c.revoked
  /\ token.subject \notin c.disabled
  /\ token.subject \in DOMAIN c.issued_after
       => token.iat >= c.issued_after[token.subject]
  /\ c.required_scopes \subseteq token.scopes
  /\ BoundBy(token, c, principal)

------------------------------------------------------------------------------
(* The server *)

\* Mutant: the cache is keyed by the name of the file.
KeyedByPath(content) == "path"

\* What the cache of parsed configurations is keyed by: their bytes.
CacheKey(content) == content

Parsed(content) == [key |-> CacheKey(content), parsed |-> content]

\* create_app: a new process, whose cache holds what it started with.
Start ==
  /\ ValidRecords(registry)
  /\ Trusted(config)
  /\ started' = registry
  /\ cache' = {Parsed(config)}
  /\ inquiry' = Idle
  /\ answer' = Never
  /\ UNCHANGED << registry, config, calls, clock, withdrawn >>

\* A request with a token comes in.
Arrive(token) ==
  /\ inquiry = Idle
  /\ inquiry' = [token |-> token, found |-> Never,
                 held |-> {About(token, registry, config)},
                 late |-> IsLocal(token) /\ token \in withdrawn]
  /\ answer' = Never
  /\ UNCHANGED << registry, config, started, cache, calls, clock, withdrawn >>

Unread == inquiry # Idle /\ inquiry.found = Never

\* Mutant: the records read at start-up stay in use.
RecordsAtStart == started

Records == registry

\* token_records and validate_records; an unusable registry is answered 503.
ReadRecords ==
  /\ Unread /\ IsLocal(inquiry.token)
  /\ inquiry' =
       IF ValidRecords(Records)
         THEN [inquiry EXCEPT !.found = {r \in Records : r.secret = inquiry.token}]
         ELSE Idle
  /\ answer' = Never
  /\ UNCHANGED << registry, config, started, cache, calls, clock, withdrawn >>

\* load_config of bytes that were parsed before.
ConfigHit ==
  /\ Unread /\ ~IsLocal(inquiry.token)
  /\ \E entry \in cache : /\ entry.key = CacheKey(config)
                          /\ inquiry' = [inquiry EXCEPT !.found = entry.parsed]
  /\ answer' = Never
  /\ UNCHANGED << registry, config, started, cache, calls, clock, withdrawn >>

\* What stays when another configuration is cached; which one makes room is
\* left open.
Remaining ==
  IF Cardinality(cache) < CacheLimit THEN {cache}
  ELSE {cache \ {entry} : entry \in cache}

\* load_config of new bytes; a configuration that is not trusted is not
\* cached, and the request is answered 503.
ConfigMiss ==
  /\ Unread /\ ~IsLocal(inquiry.token)
  /\ \A entry \in cache : entry.key # CacheKey(config)
  /\ IF Trusted(config)
       THEN /\ inquiry' = [inquiry EXCEPT !.found = config]
            /\ \E kept \in Remaining : cache' = kept \cup {Parsed(config)}
       ELSE inquiry' = Idle /\ UNCHANGED cache
  /\ answer' = Never
  /\ UNCHANGED << registry, config, started, calls, clock, withdrawn >>

\* Who a token stands for, by what was read for it.
Principal(token, found, principal) ==
  IF IsLocal(token)
    THEN \E r \in found : Active(r) /\ principal = r.grant
    ELSE Validates(token, found, principal)

\* The request gets its principal, or is answered 401.
Decide ==
  /\ inquiry # Idle /\ ~Unread
  /\ inquiry' = Idle
  /\ \/ \E g \in Grants :
          /\ Principal(inquiry.token, inquiry.found, g)
          /\ answer' = [token |-> inquiry.token, principal |-> g, late |-> inquiry.late]
     \/ /\ \A g \in Grants : ~Principal(inquiry.token, inquiry.found, g)
        /\ answer' = Never
  /\ UNCHANGED << registry, config, started, cache, calls, clock, withdrawn >>

ClockTicks ==
  /\ clock < LastTime
  /\ clock' = clock + 1
  /\ answer' = Never
  /\ UNCHANGED << registry, config, started, cache, inquiry, calls, withdrawn >>

------------------------------------------------------------------------------

AccessInit ==
  /\ registry \in { {TokenRecord(t, g, Never)} : t \in Secrets \cup Signed, g \in Grants }
  /\ config \in { c \in Configs : Trusted(c) }
  /\ started = registry /\ cache = {Parsed(config)} /\ inquiry = Idle
  /\ calls = [p \in Commands |-> Idle]
  /\ clock = 0 /\ answer = Never /\ withdrawn = {}

\* Processes and administrators change the registry.
RegistryNext ==
  \/ \E p \in Commands, s \in Secrets \ withdrawn, g \in Grants, x \in Expiries :
       ReadRegistry(p, s, g, x)
  \/ \E p \in Commands : WriteTemporary(p) \/ Replace(p) \/ GiveUp(p)
  \/ \E r \in registry : Withdraw(r, {}) \/ Withdraw(r, {[r EXCEPT !.revoked = TRUE]})

ConfigNext == \E c \in Configs \cup {Torn} : Configure(c)

RequestNext ==
  \/ \E t \in Secrets \cup Signed : Arrive(t)
  \/ ReadRecords \/ ConfigHit \/ ConfigMiss \/ Decide
  \/ ClockTicks

AccessNext == RegistryNext \/ ConfigNext \/ RequestNext \/ Start

AccessSpec == AccessInit /\ [][AccessNext]_accessVars

------------------------------------------------------------------------------
(* Properties *)

\* A request acts for a local token only by a live record that the registry
\* held at some moment since it arrived, and for an access token only by a
\* trusted configuration that the file held since then: neither what the
\* server read when it started, nor what an earlier request left in the cache
\* of parsed configurations, decides, and an access token never counts as a
\* local one (docs/V0.2.md:33, docs/V0.3.md:192).
DecidedInItsTime ==
  [][answer' # Never =>
       LET t == answer'.token
           g == answer'.principal
       IN IF IsLocal(t)
            THEN \E records \in inquiry.held : \E r \in records :
                   r.secret = t /\ r.grant = g /\ Active(r)
            ELSE \E c \in inquiry.held : Trusted(c) /\ Validates(t, c, g)]_accessVars

\* "Removing a record or marking it revoked takes effect on the next request"
\* (SECURITY.md:29): a request that arrives afterwards is not answered, until
\* an administrator grants the token again.
RevocationLasts == answer # Never => ~answer.late

==============================================================================
