------------------------------- MODULE Sessions -------------------------------
(***************************************************************************)
(* Who is served, as which tenant, and with what state of their own: the   *)
(* gateway's start (maintenance.py with migrate.py, then http_security.py),*)
(* the credential of a request (http_app.py, auth.py, identity.py), the    *)
(* state of a connection (scopes.py), and two tools that live on both, the *)
(* session briefing and remember_preference, with the ownership of rows in *)
(* the memory store (cc_client.py, memory_store.py).                       *)
(***************************************************************************)
EXTENDS Naturals, FiniteSets

CONSTANTS
  Conns,        \* connections, as the SDK's session objects tell them apart
  NoSession,    \* a call that has none
  Tokens,       \* access tokens: whether jwt.decode takes them, scopes, client
  RequiredScopes,
  ApiKey, Wrong, \* two other credentials
  Local, SharedBearer,   \* LOCAL_PRINCIPAL, SHARED_BEARER_PRINCIPAL
  Everyone,     \* GLOBAL_PRINCIPAL, "*": the owner of rows that every tenant reads
  Configs,      \* deployments: the settings, and the rules in the global tier,
                \*   which nothing in the gateway writes
  Rules,        \* preferences
  Legacy,       \* rows from before there were owners: their rules
  MaxCalls,     \* bound of the model: tool calls
  MaxFaults,    \* bound of the model: requests that fail, and restarts
  None

VARIABLES
  config,   \* the deployment
  gateway,  \* starting up, serving, or refused
  adopting, \* backfill_principals: the rows it has read and not yet written
  scope,    \* scope[key]: the SessionScope of a connection or, without one, of a tenant
  spent,    \* the scopes whose BriefingState is spent
  made,     \* scopes made so far; a scope is known by its number
  call,     \* call[k]: a tool call
  rows,     \* rows[i]: a current preference row of the store: its owner and its rule
  faults,
  told,     \* history: <<tenant, rule>> answered as recorded
  heard     \* history: <<key, tenant>> briefed on a connection of this process

vars == <<config, gateway, adopting, scope, spent, made, call, rows, faults, told, heard>>

Clients == {t.client : t \in Tokens} \ {None}
Tenants == Clients \cup {Local, SharedBearer}
Credentials == Tokens \cup {ApiKey, Wrong, None}
Keys == Conns \cup ({NoSession} \X Tenants)

ASSUME SessionsAssumption ==
  /\ NoSession \notin Conns /\ None \notin Tenants /\ Everyone \notin Tenants \cup {None}
  /\ MaxCalls \in Nat /\ Legacy \cap (1..MaxCalls) = {}
  /\ Conns \cap ({NoSession} \X Tenants) = {}
  /\ \A t \in Tokens : t.good \in BOOLEAN
  /\ \A c \in Configs :
       /\ c.transport \in {"stdio", "http"} /\ c.auth \in {"none", "bearer", "oauth"}
       /\ c.tier \cap (Legacy \cup 1..MaxCalls) = {}
       /\ {c.loopback, c.key, c.issuer, c.memory, c.writes, c.upkeep} \subseteq BOOLEAN

Fault == faults < MaxFaults /\ faults' = faults + 1

(* resolve_principal: the client of a verified token, else a constant.     *)
Principal(cred) ==
  IF cred \in Tokens /\ cred.client # None THEN cred.client
  ELSE IF config.auth = "bearer" THEN SharedBearer ELSE Local

Deployment == Principal(None)

Init ==
  /\ config \in Configs /\ gateway = "maintaining"
  /\ adopting = {}
  /\ scope = [k \in {} |-> 0] /\ spent = {} /\ made = 0
  /\ call = [k \in {} |-> 0]
  /\ rows = [i \in Legacy \cup config.tier |-> [owner |-> IF i \in Legacy THEN None ELSE Everyone, rule |-> i]]
  /\ faults = 0 /\ told = {} /\ heard = {}

-----------------------------------------------------------------------------
(* Startup.                                                                *)

(* What run_startup_maintenance asks for: auto_maintenance_enabled last.   *)
Maintained == config.memory /\ config.writes /\ config.upkeep

Unowned == {i \in DOMAIN rows : rows[i].owner = None}

(* backfill_principals: the rows without an owner are read,                *)
ReadUnowned ==
  /\ gateway = "maintaining" /\ Maintained
  /\ gateway' = "adopting"
  /\ \/ adopting' = Unowned /\ UNCHANGED faults
     \/ adopting' = {} /\ Fault
  /\ UNCHANGED <<config, scope, spent, made, call, rows, told, heard>>

(* Mutant of Adopt: the rows are written as they were read.                *)
AdoptUnstamped(i) ==
  /\ gateway = "adopting" /\ i \in adopting
  /\ adopting' = adopting \ {i}
  /\ UNCHANGED <<config, gateway, scope, spent, made, call, rows, faults, told, heard>>

(* and written back one by one, through the path that stamps the owner; a  *)
(* failure leaves the rest to the next start.                              *)
Adopt(i) ==
  /\ gateway = "adopting" /\ i \in adopting
  /\ \/ /\ rows' = [rows EXCEPT ![i].owner = Deployment]
        /\ adopting' = adopting \ {i} /\ UNCHANGED faults
     \/ adopting' = {} /\ UNCHANGED rows /\ Fault
  /\ UNCHANGED <<config, gateway, scope, spent, made, call, told, heard>>

(* validate_http_security: no open port without authentication, no secret  *)
(* that is missing or short, no issuer, audience, keys or algorithms amiss.*)
Safe ==
  config.transport = "http" =>
    /\ config.auth = "none" => config.loopback
    /\ config.auth = "bearer" => config.key
    /\ config.auth = "oauth" => config.issuer

(* build_server comes after the maintenance, whatever became of that.      *)
Serve ==
  /\ \/ gateway = "adopting" /\ adopting = {}
     \/ gateway = "maintaining" /\ ~Maintained
  /\ gateway' = IF Safe THEN "serving" ELSE "refused"
  /\ UNCHANGED <<config, adopting, scope, spent, made, call, rows, faults, told, heard>>

(* The process ends with its scopes and calls, and is started again; one   *)
(* that is starting may fail.                                              *)
Restart ==
  /\ \/ gateway \in {"serving", "refused"} /\ UNCHANGED faults
     \/ gateway = "adopting" /\ Fault
  /\ gateway' = "maintaining" /\ adopting' = {}
  /\ scope' = [k \in {} |-> 0] /\ heard' = {}
  /\ call' = [k \in DOMAIN call |-> [call[k] EXCEPT !.at = "over"]]
  /\ UNCHANGED <<config, spent, made, rows, told>>

-----------------------------------------------------------------------------
(* A request and its scope.                                                *)

(* BearerAuthMiddleware, or the SDK with JwtTokenVerifier.                 *)
Admitted(cred) ==
  config.transport = "http" =>
    /\ config.auth = "bearer" => cred = ApiKey
    /\ config.auth = "oauth" => cred \in Tokens /\ cred.good /\ RequiredScopes \subseteq cred.scopes

(* What the gateway takes notice of: there is an access token only where   *)
(* the SDK has verified one.                                               *)
Taken(cred) == IF config.transport = "http" /\ config.auth # "none" THEN cred ELSE None

Key(c, who) == IF c = NoSession THEN <<NoSession, who>> ELSE c

(* Mutant of Holds: whoever the scope was made for.                        *)
HoldsForAnyone(key, who) == key \in DOMAIN scope

(* The registry has a scope for the key, made for this tenant.             *)
Holds(key, who) == key \in DOMAIN scope /\ scope[key].who = who

(* ScopeRegistry.for_call: the scope of the key, or a new one, in place of *)
(* one of another tenant.  The result is the scope's number.               *)
ForCall(key, who, number) ==
  IF Holds(key, who)
    THEN number = scope[key].number /\ UNCHANGED <<scope, made>>
    ELSE /\ number = made + 1 /\ made' = made + 1
         /\ scope' = [k \in DOMAIN scope \cup {key} |->
                        IF k = key THEN [who |-> who, number |-> made + 1] ELSE scope[k]]

(* A request with a tool call comes in, on a connection or on none.  (One  *)
(* that is not admitted is answered with 401.)  For late, see BriefedOnce. *)
Request(k, c, cred, tool, rule) ==
  LET who == Principal(Taken(cred)) IN
  /\ gateway = "serving" /\ DOMAIN call = 1..(k - 1)
  /\ Admitted(cred)
  /\ call' = [j \in DOMAIN call \cup {k} |-> IF j # k THEN call[j] ELSE
       [at |-> tool, key |-> Key(c, who), cred |-> Taken(cred), who |-> who, rule |-> rule,
        number |-> 0, shown |-> {}, briefed |-> FALSE,
        late |-> <<Key(c, who), who>> \in heard]]
  /\ UNCHANGED <<config, gateway, adopting, scope, spent, made, rows, faults, told, heard>>

Goes(k, to) == call' = [call EXCEPT ![k].at = to]

(* The connection is over and nothing refers to it: its scope goes.        *)
Drop(c) ==
  /\ c \in DOMAIN scope \cap Conns
  /\ \A k \in DOMAIN call : call[k].key = c => call[k].at = "over"
  /\ scope' = [x \in DOMAIN scope \ {c} |-> scope[x]]
  /\ heard' = {h \in heard : h[1] # c}
  /\ UNCHANGED <<config, gateway, adopting, spent, made, call, rows, faults, told>>

-----------------------------------------------------------------------------
(* maybe_attach_briefing, on the result of a tool that carries it.         *)

CheckPending(k) ==
  /\ call[k].at = "briefing"
  /\ \E n \in 1..(made + 1) :
       /\ ForCall(call[k].key, call[k].who, n)
       /\ call' = [call EXCEPT ![k].number = n,
                               ![k].at = IF ~config.memory \/ n \in spent THEN "over" ELSE "inventory"]
  /\ UNCHANGED <<config, gateway, adopting, spent, rows, faults, told, heard>>

(* The datasets are read: without any, and after a failure, there is no    *)
(* briefing on this call.                                                  *)
Inventory(k) ==
  /\ call[k].at = "inventory"
  /\ \/ Goes(k, "preferences") /\ UNCHANGED faults
     \/ Goes(k, "over") /\ UNCHANGED faults
     \/ Goes(k, "over") /\ Fault
  /\ UNCHANGED <<config, gateway, adopting, scope, spent, made, rows, told, heard>>

(* Mutant of Visible: rows without an owner are taken for everyone's.      *)
VisibleToAll(who) == {i \in DOMAIN rows : rows[i].owner \in {who, Everyone, None}}

(* scope_clause: the tenant's rows and those of the global tier.           *)
Visible(who) == {i \in DOMAIN rows : rows[i].owner \in {who, Everyone}}

(* Mutant of Spend: the flag is not spent.                                 *)
SpendNothing(n) == UNCHANGED spent

Spend(n) == spent' = spent \cup {n}

(* The global preferences are read, none if that fails; the briefing is    *)
(* attached and the flag spent.                                            *)
Brief(k) ==
  /\ call[k].at = "preferences"
  /\ \/ /\ call' = [call EXCEPT ![k].at = "over", ![k].briefed = TRUE,
                                ![k].shown = {rows[i].rule : i \in Visible(call[k].who)}]
        /\ UNCHANGED faults
     \/ /\ call' = [call EXCEPT ![k].at = "over", ![k].briefed = TRUE]
        /\ Fault
  /\ Spend(call[k].number)
  /\ heard' = heard \cup {<<call[k].key, call[k].who>>}
  /\ UNCHANGED <<config, gateway, adopting, scope, made, rows, told>>

-----------------------------------------------------------------------------
(* remember_preference, with the scope "global".                           *)

(* The tenant's current rows are read; a rule among them is not written.   *)
ReadCurrent(k) ==
  /\ call[k].at = "remember"
  /\ \E n \in 1..(made + 1) : ForCall(call[k].key, call[k].who, n)
  /\ \/ /\ config.memory /\ config.writes
        /\ \/ /\ call[k].rule \in {rows[i].rule : i \in Visible(call[k].who)}
              /\ Goes(k, "over") /\ told' = told \cup {<<call[k].who, call[k].rule>>}
           \/ /\ call[k].rule \notin {rows[i].rule : i \in Visible(call[k].who)}
              /\ Goes(k, "insert") /\ UNCHANGED told
        /\ UNCHANGED faults
     \/ ~(config.memory /\ config.writes) /\ Goes(k, "over") /\ UNCHANGED <<faults, told>>
     \/ Goes(k, "over") /\ Fault /\ UNCHANGED told
  /\ UNCHANGED <<config, gateway, adopting, spent, rows, heard>>

(* Mutant of NewRow: nothing stamps the row.                               *)
NewRowUnstamped(k) ==
  rows' = [i \in DOMAIN rows \cup {k} |->
             IF i = k THEN [owner |-> None, rule |-> call[k].rule] ELSE rows[i]]

(* The row is stored with the tenant of the client for its owner.          *)
NewRow(k) ==
  rows' = [i \in DOMAIN rows \cup {k} |->
             IF i = k THEN [owner |-> call[k].who, rule |-> call[k].rule] ELSE rows[i]]

(* Mutant of InsertRow: an error of the store is not looked at.            *)
InsertRowBlindly(k) ==
  /\ \/ NewRow(k) /\ UNCHANGED faults
     \/ UNCHANGED rows /\ Fault
  /\ told' = told \cup {<<call[k].who, call[k].rule>>}

(* INSERT: the row is stored and the call answered; or an error, whether   *)
(* or not the row was stored.                                              *)
InsertRow(k) ==
  \/ NewRow(k) /\ told' = told \cup {<<call[k].who, call[k].rule>>} /\ UNCHANGED faults
  \/ (NewRow(k) \/ UNCHANGED rows) /\ Fault /\ UNCHANGED told

Insert(k) ==
  /\ call[k].at = "insert" /\ Goes(k, "over")
  /\ InsertRow(k)
  /\ UNCHANGED <<config, gateway, adopting, scope, spent, made, heard>>

-----------------------------------------------------------------------------

Starting == ReadUnowned \/ (\E i \in adopting : Adopt(i)) \/ Serve

Next ==
  \/ Starting \/ Restart
  \/ \E k \in 1..MaxCalls, c \in Conns \cup {NoSession}, cred \in Credentials :
       \/ Request(k, c, cred, "briefing", None)
       \/ \E rule \in Rules : Request(k, c, cred, "remember", rule)
  \/ \E c \in Conns : Drop(c)
  \/ \E k \in DOMAIN call : CheckPending(k) \/ Inventory(k) \/ Brief(k) \/ ReadCurrent(k) \/ Insert(k)

Spec == Init /\ [][Next]_vars

(* A start runs to its end: every step of the maintenance is bounded and   *)
(* its failure is passed over.  Gateways are started again and again.      *)
FairSpec == Spec /\ WF_vars(Starting) /\ WF_vars(gateway # "adopting" /\ Restart)

-----------------------------------------------------------------------------

TypeOK ==
  /\ gateway \in {"maintaining", "adopting", "serving", "refused"}
  /\ adopting # {} => gateway = "adopting"
  /\ DOMAIN scope \subseteq Keys /\ spent \subseteq 1..made
  /\ \A k \in DOMAIN scope : scope[k].who \in Tenants /\ scope[k].number \in 1..made
  /\ \A k \in DOMAIN call :
       /\ call[k].at \in {"briefing", "inventory", "preferences", "remember", "insert", "over"}
       /\ call[k].at # "over" => gateway = "serving"
       /\ call[k].key \in Keys /\ call[k].who \in Tenants /\ call[k].number \in 0..made
  /\ \A i \in DOMAIN rows : \/ rows[i].owner \in Tenants
                            \/ rows[i].owner = None /\ i \in Legacy
                            \/ rows[i].owner = Everyone /\ i \in config.tier

(* The state of a session is never that of another connection, nor of      *)
(* another tenant on the same connection.                                  *)
ScopesAreSeparate ==
  \A j, k \in DOMAIN call :
    call[j].number = call[k].number /\ call[j].number # 0 =>
      call[j].key = call[k].key /\ call[j].who = call[k].who

(* "Session briefing (shown once)": a call that comes after the briefing   *)
(* is not briefed again, unless another tenant used the connection since;  *)
(* and nothing but a briefing that was given uses a session's up, not a    *)
(* failed attempt and not another session.                                 *)
BriefedOnce ==
  /\ \A k \in DOMAIN call : call[k].late /\ call[k].briefed =>
       \E j \in DOMAIN call : call[j].key = call[k].key /\ call[j].who # call[k].who
  /\ \A n \in spent : \E k \in DOMAIN call : call[k].number = n /\ call[k].briefed

(* A briefing shows the rules of its own tenant and of the global tier;    *)
(* the rows from before there were owners are those of the deployment.     *)
RulesAreOwn ==
  \A k \in DOMAIN call : \A r \in call[k].shown :
    \/ \E j \in DOMAIN call : call[j].who = call[k].who /\ call[j].rule = r
    \/ call[k].who = Deployment /\ r \in Legacy
    \/ r \in config.tier

(* A rule that was answered as recorded, or as known, is there to be shown *)
(* to its tenant from then on, on whatever connection and after any        *)
(* restart.                                                                *)
RecordedIsKept == \A p \in told : \E i \in Visible(p[1]) : rows[i].rule = p[2]

(* Starts that fail half way do not keep old rows from being adopted.      *)
LegacyIsAdopted == Maintained => <>(Unowned = {})
=============================================================================
