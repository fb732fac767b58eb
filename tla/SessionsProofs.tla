---------------------------- MODULE SessionsProofs ----------------------------
(***************************************************************************)
(* Proofs about Sessions, for any connections, tokens, settings, rules and *)
(* rows of old: the state of a session stays with its connection and its   *)
(* tenant, rows with their owner, and a session is briefed once.           *)
(***************************************************************************)
EXTENDS Sessions, TLAPS

-----------------------------------------------------------------------------
(* Types.                                                                  *)

(* The fields of the records that are updated from step to step.           *)
Shaped ==
  /\ \A k \in DOMAIN call :
       {"at", "key", "cred", "who", "rule", "number", "shown", "briefed", "late"} \subseteq DOMAIN call[k]
  /\ \A i \in DOMAIN rows : {"owner", "rule"} \subseteq DOMAIN rows[i]

(* A call that goes on to its briefing has been given a scope.             *)
Placed ==
  \A k \in DOMAIN call : call[k].at \in {"inventory", "preferences"} => call[k].number # 0

TypeInv == TypeOK /\ made \in Nat /\ Shaped /\ Placed

(* What TypeOK says of the calls and of the rows.                          *)
CallsOK ==
  \A k \in DOMAIN call :
    /\ call[k].at \in {"briefing", "inventory", "preferences", "remember", "insert", "over"}
    /\ call[k].at # "over" => gateway = "serving"
    /\ call[k].key \in Keys /\ call[k].who \in Tenants /\ call[k].number \in 0..made

RowsOK ==
  \A i \in DOMAIN rows : \/ rows[i].owner \in Tenants
                         \/ rows[i].owner = None /\ i \in Legacy
                         \/ rows[i].owner = Everyone /\ i \in config.tier

ScopesOK ==
  /\ DOMAIN scope \subseteq Keys
  /\ \A k \in DOMAIN scope : scope[k].who \in Tenants /\ scope[k].number \in 1..made

GatewayOK ==
  /\ gateway \in {"maintaining", "adopting", "serving", "refused"}
  /\ adopting # {} => gateway = "adopting"

(* Types, part by part.                                                    *)
LEMMA TypeParts ==
  TypeOK <=> GatewayOK /\ ScopesOK /\ spent \subseteq 1..made /\ CallsOK /\ RowsOK
  BY DEF TypeOK, GatewayOK, ScopesOK, CallsOK, RowsOK

(* The same of the next state.                                             *)
LEMMA TypePartsNext ==
  TypeOK' <=> GatewayOK' /\ ScopesOK' /\ spent' \subseteq 1..made' /\ CallsOK' /\ RowsOK'
  BY DEF TypeOK, GatewayOK, ScopesOK, CallsOK, RowsOK

(* Every credential is of some tenant.                                     *)
LEMMA PrincipalIsTenant == ASSUME NEW cred PROVE Principal(cred) \in Tenants
  BY DEF Principal, Tenants, Clients

(* Every connection has a key, and without one every tenant has.           *)
LEMMA KeyIsKey ==
  ASSUME NEW c \in Conns \cup {NoSession}, NEW who \in Tenants
  PROVE  Key(c, who) \in Keys
BY DEF Key, Keys

(* for_call gives the scope of the key, made for this tenant.              *)
LEMMA ForCallGives ==
  ASSUME ScopesOK, made \in Nat, NEW key \in Keys, NEW who \in Tenants, NEW n, ForCall(key, who, n)
  PROVE  /\ ScopesOK' /\ made' \in Nat /\ made <= made' /\ n \in 1..made'
         /\ key \in DOMAIN scope' /\ scope'[key].who = who /\ scope'[key].number = n
         /\ DOMAIN scope' = DOMAIN scope \cup {key}
         /\ \A k \in DOMAIN scope \ {key} : scope'[k] = scope[k]
         /\ \/ scope' = scope /\ made' = made
            \/ n = made + 1 /\ made' = made + 1
<1>1. CASE Holds(key, who)
  <2>1. key \in DOMAIN scope /\ scope[key].who = who /\ n = scope[key].number
        /\ scope' = scope /\ made' = made
    BY <1>1 DEF ForCall, Holds
  <2>2. n \in 1..made /\ ScopesOK'
    BY <2>1 DEF ScopesOK
  <2>3. DOMAIN scope' = DOMAIN scope \cup {key}
    BY <2>1
  <2> QED
    BY <2>1, <2>2, <2>3
<1>2. CASE ~Holds(key, who)
  <2>1. /\ n = made + 1 /\ made' = made + 1
        /\ scope' = [k \in DOMAIN scope \cup {key} |->
                       IF k = key THEN [who |-> who, number |-> made + 1] ELSE scope[k]]
    BY <1>2 DEF ForCall
  <2>2. /\ DOMAIN scope' = DOMAIN scope \cup {key}
        /\ scope'[key].who = who /\ scope'[key].number = n
        /\ \A k \in DOMAIN scope \ {key} : scope'[k] = scope[k]
    BY <2>1
  <2> QED
    BY <2>1, <2>2 DEF ScopesOK
<1> QED
  BY <1>1, <1>2

(* A call that goes on, or ends, keeps what it was made with.              *)
LEMMA GoesTypes ==
  ASSUME CallsOK, Shaped, NEW k \in DOMAIN call, call[k].at # "over",
         NEW to \in {"inventory", "preferences", "insert", "over"}, Goes(k, to)
  PROVE  /\ DOMAIN call' = DOMAIN call /\ \A j \in DOMAIN call \ {k} : call'[j] = call[j]
         /\ DOMAIN call'[k] = DOMAIN call[k] /\ call'[k].at = to
         /\ call'[k].key = call[k].key /\ call'[k].who = call[k].who
         /\ call'[k].number = call[k].number
BY DEF Goes, Shaped

(* Calls stay well formed when one of them changes alone.                  *)
LEMMA CallsKept ==
  ASSUME TypeInv, made' \in Nat, made <= made', gateway' = gateway, rows' = rows, NEW k \in DOMAIN call,
         call[k].at # "over",
         DOMAIN call' = DOMAIN call, \A j \in DOMAIN call \ {k} : call'[j] = call[j],
         DOMAIN call'[k] = DOMAIN call[k],
         call'[k].key = call[k].key, call'[k].who = call[k].who,
         call'[k].number \in 0..made',
         call'[k].at \in {"inventory", "preferences", "insert", "over"},
         call'[k].at \in {"inventory", "preferences"} => call'[k].number # 0
  PROVE  CallsOK' /\ Shaped' /\ Placed'
<1>1. CallsOK
  BY TypeParts DEF TypeInv
<1>2. CallsOK'
  BY <1>1 DEF CallsOK, TypeInv
<1>3. Shaped' /\ Placed'
  BY DEF Shaped, Placed, TypeInv
<1> QED
  BY <1>2, <1>3

(* A gateway that starts has no calls and no scopes.                       *)
LEMMA InitType == Init => TypeInv
<1> SUFFICES ASSUME Init PROVE TypeInv
  OBVIOUS
<1>1. /\ DOMAIN scope = {} /\ DOMAIN call = {} /\ spent = {} /\ made = 0 /\ adopting = {}
      /\ gateway = "maintaining" /\ DOMAIN rows = Legacy \cup config.tier
      /\ \A i \in DOMAIN rows : rows[i].owner = (IF i \in Legacy THEN None ELSE Everyone)
                              /\ DOMAIN rows[i] = {"owner", "rule"}
  BY DEF Init
<1>2. TypeOK
  BY <1>1 DEF TypeOK
<1>3. Shaped
  BY <1>1 DEF Shaped
<1> QED
  BY <1>1, <1>2, <1>3 DEF TypeInv, Placed

(* The steps of a start.                                                   *)
LEMMA StartTypes ==
  ASSUME TypeInv, ReadUnowned \/ (\E i \in adopting : Adopt(i)) \/ Serve
  PROVE  TypeInv'
<1>0. GatewayOK /\ ScopesOK /\ spent \subseteq 1..made /\ CallsOK /\ RowsOK /\ made \in Nat
  BY TypeParts DEF TypeInv
<1>1. gateway \in {"maintaining", "adopting"} /\ UNCHANGED <<config, scope, spent, made, call>>
  BY DEF ReadUnowned, Adopt, Serve
<1>2. \A k \in DOMAIN call : call[k].at = "over"
  BY <1>0, <1>1 DEF CallsOK
<1>3. GatewayOK'
  BY <1>0 DEF ReadUnowned, Adopt, Serve, GatewayOK
<1>4. CallsOK' /\ ScopesOK' /\ Placed'
  BY <1>0, <1>1, <1>2 DEF CallsOK, ScopesOK, Placed
<1>5. RowsOK' /\ Shaped'
  <2>1. CASE rows' = rows
    BY <1>0, <1>1, <2>1 DEF RowsOK, Shaped, TypeInv
  <2>2. ASSUME NEW i \in adopting, rows' = [rows EXCEPT ![i].owner = Deployment]
        PROVE  RowsOK' /\ Shaped'
    <3>1. Deployment \in Tenants
      BY PrincipalIsTenant DEF Deployment
    <3>2. DOMAIN rows' = DOMAIN rows /\ \A j \in DOMAIN rows : DOMAIN rows'[j] = DOMAIN rows[j]
      BY <2>2
    <3>3. \A j \in DOMAIN rows : rows'[j].owner = IF j = i THEN Deployment ELSE rows[j].owner
      BY <2>2 DEF TypeInv, Shaped
    <3>4. RowsOK'
      BY <1>0, <1>1, <3>1, <3>2, <3>3 DEF RowsOK
    <3> QED
      BY <1>1, <3>2, <3>4 DEF Shaped, TypeInv
  <2> QED
    BY <2>1, <2>2 DEF ReadUnowned, Adopt, Serve
<1> QED
  BY <1>0, <1>1, <1>3, <1>4, <1>5, TypePartsNext DEF TypeInv

(* A restart ends the calls and forgets the scopes.                        *)
LEMMA RestartTypes ==
  ASSUME TypeInv, Restart
  PROVE  TypeInv'
<1>0. GatewayOK /\ CallsOK /\ RowsOK /\ spent \subseteq 1..made /\ made \in Nat
  BY TypeParts DEF TypeInv
<1>1. /\ gateway' = "maintaining" /\ adopting' = {} /\ DOMAIN scope' = {}
      /\ UNCHANGED <<config, spent, made, rows>>
      /\ DOMAIN call' = DOMAIN call
      /\ \A k \in DOMAIN call : call'[k] = [call[k] EXCEPT !.at = "over"]
  BY DEF Restart
<1>2. \A k \in DOMAIN call :
        /\ DOMAIN call'[k] = DOMAIN call[k] /\ call'[k].at = "over"
        /\ call'[k].key = call[k].key /\ call'[k].who = call[k].who /\ call'[k].number = call[k].number
  BY <1>1 DEF TypeInv, Shaped
<1>3. CallsOK' /\ Shaped' /\ Placed'
  BY <1>0, <1>1, <1>2 DEF CallsOK, Shaped, Placed, TypeInv
<1>4. GatewayOK' /\ ScopesOK' /\ RowsOK'
  BY <1>0, <1>1 DEF GatewayOK, ScopesOK, RowsOK
<1> QED
  BY <1>0, <1>1, <1>3, <1>4, TypePartsNext DEF TypeInv

(* A call that is made.                                                    *)
LEMMA RequestMakes ==
  ASSUME NEW k, NEW c, NEW cred, NEW tool, NEW rule, Request(k, c, cred, tool, rule)
  PROVE  /\ gateway = "serving" /\ UNCHANGED <<config, gateway, adopting, scope, spent, made, rows>>
         /\ DOMAIN call' = DOMAIN call \cup {k}
         /\ \A j \in DOMAIN call \ {k} : call'[j] = call[j]
         /\ call'[k].at = tool /\ call'[k].number = 0
         /\ call'[k].key = Key(c, Principal(Taken(cred))) /\ call'[k].who = Principal(Taken(cred))
         /\ {"at", "key", "cred", "who", "rule", "number", "shown", "briefed", "late"}
              \subseteq DOMAIN call'[k]
BY DEF Request

(* A request makes a call of the tenant its credential names.              *)
LEMMA RequestTypes ==
  ASSUME TypeInv, NEW k, NEW c \in Conns \cup {NoSession}, NEW cred, NEW rule,
         NEW tool \in {"briefing", "remember"}, Request(k, c, cred, tool, rule)
  PROVE  TypeInv'
<1>0. GatewayOK /\ ScopesOK /\ spent \subseteq 1..made /\ CallsOK /\ RowsOK /\ made \in Nat
  BY TypeParts DEF TypeInv
<1>1. Principal(Taken(cred)) \in Tenants /\ Key(c, Principal(Taken(cred))) \in Keys
  BY PrincipalIsTenant, KeyIsKey
<1>2. /\ gateway = "serving" /\ UNCHANGED <<config, gateway, adopting, scope, spent, made, rows>>
      /\ DOMAIN call' = DOMAIN call \cup {k}
      /\ \A j \in DOMAIN call \ {k} : call'[j] = call[j]
      /\ call'[k].at = tool /\ call'[k].number = 0
      /\ call'[k].key = Key(c, Principal(Taken(cred))) /\ call'[k].who = Principal(Taken(cred))
      /\ {"at", "key", "cred", "who", "rule", "number", "shown", "briefed", "late"}
           \subseteq DOMAIN call'[k]
  BY RequestMakes
<1>3. CallsOK'
  <2>1. call'[k].key \in Keys /\ call'[k].who \in Tenants
    BY <1>1, <1>2
  <2>2. \A j \in DOMAIN call' : j = k \/ (j \in DOMAIN call \ {k} /\ call'[j] = call[j])
    BY <1>2
  <2> QED
    BY <1>0, <1>2, <2>1, <2>2 DEF CallsOK
<1>4. Shaped' /\ Placed'
  BY <1>2 DEF Shaped, Placed, TypeInv
<1>5. GatewayOK' /\ ScopesOK' /\ RowsOK'
  BY <1>0, <1>2 DEF GatewayOK, ScopesOK, RowsOK
<1> QED
  BY <1>0, <1>2, <1>3, <1>4, <1>5, TypePartsNext DEF TypeInv

(* A connection that is over takes its scope along.                        *)
LEMMA DropTypes ==
  ASSUME TypeInv, NEW c, Drop(c)
  PROVE  TypeInv'
<1>0. GatewayOK /\ ScopesOK /\ spent \subseteq 1..made /\ CallsOK /\ RowsOK /\ made \in Nat
  BY TypeParts DEF TypeInv
<1>1. /\ UNCHANGED <<config, gateway, adopting, spent, made, call, rows>>
      /\ scope' = [x \in DOMAIN scope \ {c} |-> scope[x]]
  BY DEF Drop
<1>2. ScopesOK'
  BY <1>0, <1>1 DEF ScopesOK
<1>3. GatewayOK' /\ CallsOK' /\ RowsOK' /\ Shaped' /\ Placed'
  BY <1>0, <1>1 DEF GatewayOK, CallsOK, RowsOK, Shaped, Placed, TypeInv
<1> QED
  BY <1>0, <1>1, <1>2, <1>3, TypePartsNext DEF TypeInv

(* The first step of the briefing gives the call its scope.                *)
LEMMA CheckGives ==
  ASSUME TypeInv, NEW k \in DOMAIN call, CheckPending(k)
  PROVE  \E n \in 1..(made + 1) :
           /\ ForCall(call[k].key, call[k].who, n)
           /\ DOMAIN call' = DOMAIN call /\ \A j \in DOMAIN call \ {k} : call'[j] = call[j]
           /\ DOMAIN call'[k] = DOMAIN call[k]
           /\ call'[k].key = call[k].key /\ call'[k].who = call[k].who
           /\ call'[k].number = n /\ call'[k].at \in {"inventory", "over"}
<1>1. PICK n \in 1..(made + 1) :
        /\ ForCall(call[k].key, call[k].who, n)
        /\ call' = [call EXCEPT ![k].number = n,
                                ![k].at = IF ~config.memory \/ n \in spent THEN "over" ELSE "inventory"]
  BY DEF CheckPending
<1> DEFINE to == IF ~config.memory \/ n \in spent THEN "over" ELSE "inventory"
<1>2. to \in {"inventory", "over"}
  OBVIOUS
<1> HIDE DEF to
<1>3. call' = [call EXCEPT ![k] = [[call[k] EXCEPT !.number = n] EXCEPT !.at = to]]
  BY <1>1 DEF to
<1>4. /\ DOMAIN call' = DOMAIN call /\ \A j \in DOMAIN call \ {k} : call'[j] = call[j]
      /\ call'[k] = [[call[k] EXCEPT !.number = n] EXCEPT !.at = to]
  BY <1>3
<1>5. /\ DOMAIN call'[k] = DOMAIN call[k]
      /\ call'[k].key = call[k].key /\ call'[k].who = call[k].who
      /\ call'[k].number = n /\ call'[k].at = to
  BY <1>4 DEF TypeInv, Shaped
<1> QED
  BY <1>1, <1>2, <1>4, <1>5

(* The first step of the briefing leaves the types.                        *)
LEMMA CheckTypes ==
  ASSUME TypeInv, NEW k \in DOMAIN call, CheckPending(k)
  PROVE  TypeInv'
<1>0. GatewayOK /\ ScopesOK /\ spent \subseteq 1..made /\ CallsOK /\ RowsOK /\ made \in Nat
  BY TypeParts DEF TypeInv
<1>1. UNCHANGED <<config, gateway, adopting, spent, rows>> /\ call[k].at # "over"
  BY DEF CheckPending
<1>2. PICK n \in 1..(made + 1) :
           /\ ForCall(call[k].key, call[k].who, n)
           /\ DOMAIN call' = DOMAIN call /\ \A j \in DOMAIN call \ {k} : call'[j] = call[j]
           /\ DOMAIN call'[k] = DOMAIN call[k]
           /\ call'[k].key = call[k].key /\ call'[k].who = call[k].who
           /\ call'[k].number = n /\ call'[k].at \in {"inventory", "over"}
  BY CheckGives
<1>3. ScopesOK' /\ made' \in Nat /\ made <= made' /\ n \in 1..made'
  <2>1. call[k].key \in Keys /\ call[k].who \in Tenants
    BY <1>0 DEF CallsOK
  <2> QED
    BY <1>0, <1>2, <2>1, ForCallGives
<1>4. CallsOK' /\ Shaped' /\ Placed'
  BY <1>1, <1>2, <1>3, CallsKept
<1>5. GatewayOK' /\ RowsOK' /\ spent' \subseteq 1..made'
  BY <1>0, <1>1, <1>3 DEF GatewayOK, RowsOK
<1> QED
  BY <1>3, <1>4, <1>5, TypePartsNext DEF TypeInv

(* The inventory of the briefing leaves the types.                         *)
LEMMA InventoryTypes ==
  ASSUME TypeInv, NEW k \in DOMAIN call, Inventory(k)
  PROVE  TypeInv'
<1>0. GatewayOK /\ ScopesOK /\ spent \subseteq 1..made /\ CallsOK /\ RowsOK /\ made \in Nat /\ Shaped
  BY TypeParts DEF TypeInv
<1>1. UNCHANGED <<config, gateway, adopting, scope, spent, made, rows>> /\ call[k].at = "inventory"
  BY DEF Inventory
<1>2. PICK to \in {"preferences", "over"} : Goes(k, to)
  BY DEF Inventory
<1>3. call[k].number \in 0..made /\ call[k].number # 0
  BY <1>0, <1>1 DEF CallsOK, Placed, TypeInv
<1>4. CallsOK' /\ Shaped' /\ Placed'
  BY <1>0, <1>1, <1>2, <1>3, GoesTypes, CallsKept
<1> QED
  BY <1>0, <1>1, <1>4, TypePartsNext DEF TypeInv, GatewayOK, ScopesOK, RowsOK

(* The last step of the briefing.                                          *)
LEMMA BriefMakes ==
  ASSUME Shaped, NEW k \in DOMAIN call, Brief(k)
  PROVE  /\ DOMAIN call' = DOMAIN call /\ \A j \in DOMAIN call \ {k} : call'[j] = call[j]
         /\ DOMAIN call'[k] = DOMAIN call[k] /\ call'[k].at = "over"
         /\ call'[k].key = call[k].key /\ call'[k].who = call[k].who
         /\ call'[k].number = call[k].number
<1>0. PICK b \in BOOLEAN :
        \E x : \/ call' = [call EXCEPT ![k].at = "over", ![k].briefed = b, ![k].shown = x]
               \/ call' = [call EXCEPT ![k].at = "over", ![k].briefed = b]
  BY Zenon DEF Brief
<1>1. PICK x : \/ call' = [call EXCEPT ![k].at = "over", ![k].briefed = b, ![k].shown = x]
               \/ call' = [call EXCEPT ![k].at = "over", ![k].briefed = b]
  BY <1>0
<1>2. \/ call' = [call EXCEPT ![k] = [[[call[k] EXCEPT !.at = "over"] EXCEPT !.briefed = b] EXCEPT !.shown = x]]
      \/ call' = [call EXCEPT ![k] = [[call[k] EXCEPT !.at = "over"] EXCEPT !.briefed = b]]
  BY <1>1
<1>3. /\ DOMAIN call' = DOMAIN call /\ \A j \in DOMAIN call \ {k} : call'[j] = call[j]
      /\ \/ call'[k] = [[[call[k] EXCEPT !.at = "over"] EXCEPT !.briefed = b] EXCEPT !.shown = x]
         \/ call'[k] = [[call[k] EXCEPT !.at = "over"] EXCEPT !.briefed = b]
  BY <1>2
<1> QED
  BY <1>3 DEF Shaped

(* The last step of the briefing leaves the types.                         *)
LEMMA BriefTypes ==
  ASSUME TypeInv, NEW k \in DOMAIN call, Brief(k)
  PROVE  TypeInv'
<1>0. GatewayOK /\ ScopesOK /\ spent \subseteq 1..made /\ CallsOK /\ RowsOK /\ made \in Nat /\ Shaped
  BY TypeParts DEF TypeInv
<1>1. /\ UNCHANGED <<config, gateway, adopting, scope, made, rows>> /\ call[k].at = "preferences"
      /\ spent' = spent \cup {call[k].number}
  BY DEF Brief, Spend
<1>2. call[k].number \in 0..made /\ call[k].number # 0
  BY <1>0, <1>1 DEF CallsOK, Placed, TypeInv
<1>3. CallsOK' /\ Shaped' /\ Placed'
  BY <1>0, <1>1, <1>2, BriefMakes, CallsKept
<1>4. spent' \subseteq 1..made'
  <2>1. call[k].number \in 1..made
    BY <1>0, <1>2
  <2> QED
    BY <1>0, <1>1, <2>1
<1> QED
  BY <1>0, <1>1, <1>3, <1>4, TypePartsNext DEF TypeInv, GatewayOK, ScopesOK, RowsOK

(* remember_preference, reading, leaves the types.                         *)
LEMMA ReadCurrentTypes ==
  ASSUME TypeInv, NEW k \in DOMAIN call, ReadCurrent(k)
  PROVE  TypeInv'
<1>0. GatewayOK /\ ScopesOK /\ spent \subseteq 1..made /\ CallsOK /\ RowsOK /\ made \in Nat /\ Shaped
  BY TypeParts DEF TypeInv
<1>1. UNCHANGED <<config, gateway, adopting, spent, rows>> /\ call[k].at = "remember"
  BY DEF ReadCurrent
<1>2. PICK to \in {"insert", "over"} : Goes(k, to)
  BY DEF ReadCurrent
<1>3. ScopesOK' /\ made' \in Nat /\ made <= made'
  <2>1. PICK n \in 1..(made + 1) : ForCall(call[k].key, call[k].who, n)
    BY DEF ReadCurrent
  <2>2. call[k].key \in Keys /\ call[k].who \in Tenants
    BY <1>0 DEF CallsOK
  <2> QED
    BY <1>0, <2>1, <2>2, ForCallGives
<1>4. call[k].number \in 0..made'
  BY <1>0, <1>3 DEF CallsOK
<1>5. CallsOK' /\ Shaped' /\ Placed'
  BY <1>0, <1>1, <1>2, <1>3, <1>4, GoesTypes, CallsKept
<1>6. GatewayOK' /\ RowsOK' /\ spent' \subseteq 1..made'
  BY <1>0, <1>1, <1>3 DEF GatewayOK, RowsOK
<1> QED
  BY <1>3, <1>5, <1>6, TypePartsNext DEF TypeInv

(* remember_preference, writing, stores a row with an owner.               *)
LEMMA InsertTypes ==
  ASSUME TypeInv, NEW k \in DOMAIN call, Insert(k)
  PROVE  TypeInv'
<1>0. GatewayOK /\ ScopesOK /\ spent \subseteq 1..made /\ CallsOK /\ RowsOK /\ made \in Nat /\ Shaped
  BY TypeParts DEF TypeInv
<1>1. UNCHANGED <<config, gateway, adopting, scope, spent, made>> /\ call[k].at = "insert" /\ Goes(k, "over")
  BY DEF Insert
<1>2. call[k].who \in Tenants /\ call[k].number \in 0..made
  BY <1>0 DEF CallsOK
<1>3. RowsOK' /\ \A i \in DOMAIN rows' : {"owner", "rule"} \subseteq DOMAIN rows'[i]
  <2>1. CASE rows' = rows
    BY <1>0, <1>1, <2>1 DEF RowsOK, Shaped
  <2>2. CASE NewRow(k)
    BY <1>0, <1>1, <1>2, <2>2 DEF RowsOK, Shaped, NewRow
  <2> QED
    BY <2>1, <2>2 DEF Insert, InsertRow
<1>4. CallsOK' /\ Placed' /\ \A j \in DOMAIN call' : DOMAIN call'[j] = DOMAIN call[j]
  <2>1. /\ DOMAIN call' = DOMAIN call /\ \A j \in DOMAIN call \ {k} : call'[j] = call[j]
        /\ DOMAIN call'[k] = DOMAIN call[k] /\ call'[k].at = "over"
        /\ call'[k].key = call[k].key /\ call'[k].who = call[k].who
        /\ call'[k].number = call[k].number
    BY <1>0, <1>1, GoesTypes
  <2> QED
    BY <1>0, <1>1, <2>1 DEF CallsOK, Placed, TypeInv
<1>5. Shaped'
  BY <1>0, <1>3, <1>4, <1>1 DEF Shaped, Goes
<1> QED
  BY <1>0, <1>1, <1>3, <1>4, <1>5, TypePartsNext DEF TypeInv, GatewayOK, ScopesOK

(* Every step leaves the types.                                            *)
LEMMA StepType == TypeInv /\ [Next]_vars => TypeInv'
<1> SUFFICES ASSUME TypeInv, [Next]_vars PROVE TypeInv'
  OBVIOUS
<1>1. CASE UNCHANGED vars
  BY <1>1 DEF vars, TypeInv, TypeOK, Shaped, Placed
<1> QED
  BY <1>1, StartTypes, RestartTypes, RequestTypes, DropTypes, CheckTypes, InventoryTypes, BriefTypes,
     ReadCurrentTypes, InsertTypes DEF Next, Starting

-----------------------------------------------------------------------------
(* Scopes.                                                                 *)

(* No two keys have the same scope.                                        *)
ScopesApart ==
  \A k, l \in DOMAIN scope : scope[k].number = scope[l].number => k = l

(* A call that was given a scope had the key and the tenant of the scope.  *)
CallsInPlace ==
  \A k \in DOMAIN call : \A key \in DOMAIN scope :
    call[k].number = scope[key].number => call[k].key = key /\ call[k].who = scope[key].who

ScopeInv == TypeInv /\ ScopesApart /\ CallsInPlace /\ ScopesAreSeparate

(* At the start there is no scope.                                         *)
LEMMA InitScope == Init => ScopeInv
  BY InitType DEF ScopeInv, Init, ScopesApart, CallsInPlace, ScopesAreSeparate

(* Calls that change neither scope, key nor tenant, while scopes go.       *)
LEMMA ScopesKept ==
  ASSUME ScopeInv, DOMAIN call' = DOMAIN call,
         \A k \in DOMAIN call : /\ call'[k].key = call[k].key /\ call'[k].who = call[k].who
                                /\ call'[k].number = call[k].number,
         DOMAIN scope' \subseteq DOMAIN scope, \A k \in DOMAIN scope' : scope'[k] = scope[k]
  PROVE  ScopesApart' /\ CallsInPlace' /\ ScopesAreSeparate'
BY DEF ScopeInv, ScopesApart, CallsInPlace, ScopesAreSeparate

(* A scope that is new, or the one the key had, keeps the scopes apart.    *)
LEMMA ForCallApart ==
  ASSUME ScopeInv, NEW key \in Keys, NEW who \in Tenants, NEW n, ForCall(key, who, n)
  PROVE  /\ ScopesApart'
         /\ \A k \in DOMAIN call : \A l \in DOMAIN scope' :
              call[k].number = scope'[l].number => call[k].key = l /\ call[k].who = scope'[l].who
         /\ key \in DOMAIN scope' /\ scope'[key].who = who /\ scope'[key].number = n /\ n # 0
<1>1. ScopesOK /\ CallsOK /\ made \in Nat
  BY TypeParts DEF ScopeInv, TypeInv
<1>2. /\ ScopesOK' /\ made' \in Nat /\ n \in 1..made'
      /\ key \in DOMAIN scope' /\ scope'[key].who = who /\ scope'[key].number = n
      /\ DOMAIN scope' = DOMAIN scope \cup {key}
      /\ \A k \in DOMAIN scope \ {key} : scope'[k] = scope[k]
      /\ \/ scope' = scope /\ made' = made
         \/ n = made + 1 /\ made' = made + 1
  BY <1>1, ForCallGives
<1>3. n # 0
  BY <1>2
<1>4. CASE scope' = scope
  BY <1>2, <1>3, <1>4 DEF ScopeInv, ScopesApart, CallsInPlace
<1>5. CASE n = made + 1
  <2>1. \A k \in DOMAIN scope : scope[k].number # n
    BY <1>1, <1>5 DEF ScopesOK
  <2>2. \A k \in DOMAIN call : call[k].number # n
    BY <1>1, <1>5 DEF CallsOK
  <2>3. ScopesApart'
    BY <1>2, <2>1 DEF ScopeInv, ScopesApart
  <2> QED
    BY <1>2, <1>3, <2>1, <2>2, <2>3 DEF ScopeInv, CallsInPlace
<1> QED
  BY <1>2, <1>4, <1>5

(* A call that looks for its briefing gets the scope of its key and        *)
(* tenant.                                                                 *)
LEMMA CheckScope ==
  ASSUME ScopeInv, NEW k \in DOMAIN call, CheckPending(k)
  PROVE  ScopesApart' /\ CallsInPlace' /\ ScopesAreSeparate'
<1>1. PICK n \in 1..(made + 1) :
           /\ ForCall(call[k].key, call[k].who, n)
           /\ DOMAIN call' = DOMAIN call /\ \A j \in DOMAIN call \ {k} : call'[j] = call[j]
           /\ DOMAIN call'[k] = DOMAIN call[k]
           /\ call'[k].key = call[k].key /\ call'[k].who = call[k].who
           /\ call'[k].number = n /\ call'[k].at \in {"inventory", "over"}
  BY CheckGives DEF ScopeInv
<1>2. call[k].key \in Keys /\ call[k].who \in Tenants
  BY TypeParts DEF ScopeInv, TypeInv, CallsOK
<1>3. /\ ScopesApart'
      /\ \A j \in DOMAIN call : \A l \in DOMAIN scope' :
           call[j].number = scope'[l].number => call[j].key = l /\ call[j].who = scope'[l].who
      /\ call[k].key \in DOMAIN scope' /\ scope'[call[k].key].who = call[k].who
      /\ scope'[call[k].key].number = n /\ n # 0
  BY <1>1, <1>2, ForCallApart
<1>4. CallsInPlace'
  <2>1. \A l \in DOMAIN scope' : scope'[l].number = n => l = call[k].key
    BY <1>3 DEF ScopesApart
  <2> QED
    BY <1>1, <1>3, <2>1 DEF CallsInPlace
<1>5. ScopesAreSeparate'
  <2>1. \A j \in DOMAIN call \ {k} : call[j].number = n => call[j].key = call[k].key /\ call[j].who = call[k].who
    BY <1>3
  <2> QED
    BY <1>1, <2>1 DEF ScopesAreSeparate, ScopeInv
<1> QED
  BY <1>3, <1>4, <1>5

(* Every step keeps the scopes apart.                                      *)
LEMMA StepScope == ScopeInv /\ [Next]_vars => ScopeInv'
<1> SUFFICES ASSUME ScopeInv, [Next]_vars PROVE ScopeInv'
  OBVIOUS
<1>0. TypeInv /\ TypeInv' /\ CallsOK /\ Shaped
  BY StepType, TypeParts DEF ScopeInv, TypeInv
<1> SUFFICES ScopesApart' /\ CallsInPlace' /\ ScopesAreSeparate'
  BY <1>0 DEF ScopeInv
<1>1. CASE UNCHANGED vars
  BY <1>1, ScopesKept DEF vars
<1>2. CASE Starting
  BY <1>2, ScopesKept DEF Starting, ReadUnowned, Adopt, Serve
<1>3. CASE Restart
  <2>1. /\ DOMAIN call' = DOMAIN call /\ DOMAIN scope' = {}
        /\ \A k \in DOMAIN call : call'[k] = [call[k] EXCEPT !.at = "over"]
    BY <1>3 DEF Restart
  <2>2. \A k \in DOMAIN call : /\ call'[k].key = call[k].key /\ call'[k].who = call[k].who
                               /\ call'[k].number = call[k].number
    BY <1>0, <2>1 DEF Shaped
  <2> QED
    BY <2>1, <2>2, ScopesKept
<1>4. ASSUME NEW k, NEW c \in Conns \cup {NoSession}, NEW cred, NEW tool, NEW rule,
             Request(k, c, cred, tool, rule)
      PROVE  ScopesApart' /\ CallsInPlace' /\ ScopesAreSeparate'
  <2>1. /\ scope' = scope /\ DOMAIN call' = DOMAIN call \cup {k} /\ call'[k].number = 0
        /\ \A j \in DOMAIN call \ {k} : call'[j] = call[j]
    BY <1>4, RequestMakes
  <2>2. \A l \in DOMAIN scope : scope[l].number # 0
    BY TypeParts, <1>0 DEF TypeInv, ScopesOK
  <2> QED
    BY <2>1, <2>2 DEF ScopeInv, ScopesApart, CallsInPlace, ScopesAreSeparate
<1>5. ASSUME NEW c \in Conns, Drop(c) PROVE ScopesApart' /\ CallsInPlace' /\ ScopesAreSeparate'
  BY <1>5, ScopesKept DEF Drop
<1>6. ASSUME NEW k \in DOMAIN call, Inventory(k) \/ Brief(k) \/ Insert(k)
      PROVE  ScopesApart' /\ CallsInPlace' /\ ScopesAreSeparate'
  <2>1. scope' = scope
    BY <1>6 DEF Inventory, Brief, Insert
  <2>2. /\ DOMAIN call' = DOMAIN call
        /\ \A j \in DOMAIN call : /\ call'[j].key = call[j].key /\ call'[j].who = call[j].who
                                  /\ call'[j].number = call[j].number
    <3>1. CASE Brief(k)
      BY <1>0, <3>1, BriefMakes
    <3>2. ASSUME NEW to \in {"inventory", "preferences", "insert", "over"}, Goes(k, to)
          PROVE  /\ DOMAIN call' = DOMAIN call
                 /\ \A j \in DOMAIN call : /\ call'[j].key = call[j].key /\ call'[j].who = call[j].who
                                           /\ call'[j].number = call[j].number
      BY <1>0, <3>2 DEF Goes, Shaped
    <3> QED
      BY <1>6, <3>1, <3>2 DEF Inventory, Insert
  <2> QED
    BY <2>1, <2>2, ScopesKept
<1>7. ASSUME NEW k \in DOMAIN call, ReadCurrent(k)
      PROVE  ScopesApart' /\ CallsInPlace' /\ ScopesAreSeparate'
  <2>1. PICK n \in 1..(made + 1) : ForCall(call[k].key, call[k].who, n)
    BY <1>7 DEF ReadCurrent
  <2>2. /\ DOMAIN call' = DOMAIN call
        /\ \A j \in DOMAIN call : /\ call'[j].key = call[j].key /\ call'[j].who = call[j].who
                                  /\ call'[j].number = call[j].number
    <3>1. PICK to \in {"insert", "over"} : Goes(k, to)
      BY <1>7 DEF ReadCurrent
    <3> QED
      BY <1>0, <3>1 DEF Goes, Shaped
  <2>3. call[k].key \in Keys /\ call[k].who \in Tenants
    BY <1>0 DEF CallsOK
  <2>4. /\ ScopesApart'
        /\ \A j \in DOMAIN call : \A l \in DOMAIN scope' :
             call[j].number = scope'[l].number => call[j].key = l /\ call[j].who = scope'[l].who
    BY <2>1, <2>3, ForCallApart
  <2> QED
    BY <2>2, <2>4 DEF ScopeInv, CallsInPlace, ScopesAreSeparate
<1> QED
  BY <1>1, <1>2, <1>3, <1>4, <1>5, <1>6, <1>7, CheckScope DEF Next

-----------------------------------------------------------------------------
(* Rows.                                                                   *)

(* A row is in the store from the start, or of a call that is over; what   *)
(* is being adopted has no owner yet.                                      *)
RowsInPlace ==
  /\ DOMAIN rows \subseteq Legacy \cup config.tier \cup DOMAIN call
  /\ \A k \in DOMAIN call : k \in 1..MaxCalls /\ (k \in DOMAIN rows => call[k].at = "over")
  /\ \A i \in adopting \cap DOMAIN rows : rows[i].owner = None
  /\ config.tier \cap (1..MaxCalls) = {}

(* A rule is of the row's owner, of the deployment, or everyone's.         *)
RowIsOwn(i) ==
  IF rows[i].owner = None THEN rows[i].rule \in Legacy
  ELSE \/ \E j \in DOMAIN call : call[j].who = rows[i].owner /\ call[j].rule = rows[i].rule
       \/ rows[i].owner = Deployment /\ rows[i].rule \in Legacy
       \/ rows[i].owner = Everyone /\ rows[i].rule \in config.tier

RowsInv ==
  /\ TypeInv /\ RowsInPlace
  /\ \A i \in DOMAIN rows : RowIsOwn(i)
  /\ \A p \in told : p[1] \in Tenants
  /\ RulesAreOwn /\ RecordedIsKept

(* At the start the rows are those from before there were owners.          *)
LEMMA InitRows == Init => RowsInv
<1> SUFFICES ASSUME Init PROVE RowsInv
  OBVIOUS
<1>1. /\ DOMAIN call = {} /\ adopting = {} /\ told = {} /\ DOMAIN rows = Legacy \cup config.tier
      /\ \A i \in DOMAIN rows : rows[i].owner = (IF i \in Legacy THEN None ELSE Everyone) /\ rows[i].rule = i
  BY DEF Init
<1>2. config.tier \cap (1..MaxCalls) = {} /\ Everyone # None
  BY SessionsAssumption DEF Init
<1> QED
  BY <1>1, <1>2, InitType DEF RowsInv, RowsInPlace, RowIsOwn, RulesAreOwn, RecordedIsKept

(* What a step leaves of the calls: the tenant, the rule, the end, and     *)
(* what has been shown unless a briefing shows it now.                     *)
CallsStay ==
  /\ config' = config /\ DOMAIN call \subseteq DOMAIN call'
  /\ \A k \in DOMAIN call :
       /\ call'[k].who = call[k].who /\ call'[k].rule = call[k].rule
       /\ call[k].at = "over" => call'[k].at = "over"
       /\ \/ call'[k].shown = call[k].shown
          \/ call'[k].shown = {rows[i].rule : i \in Visible(call[k].who)}

(* A briefing shows what its tenant may see.                               *)
LEMMA BriefShows ==
  ASSUME Shaped, NEW k \in DOMAIN call, Brief(k)
  PROVE  CallsStay /\ DOMAIN call' = DOMAIN call
<1> DEFINE x == {rows[i].rule : i \in Visible(call[k].who)}
<1>1. PICK b \in BOOLEAN : \/ call' = [call EXCEPT ![k].at = "over", ![k].briefed = b, ![k].shown = x]
                           \/ call' = [call EXCEPT ![k].at = "over", ![k].briefed = b]
  BY Zenon DEF Brief
<1>2. config' = config /\ call[k].at = "preferences"
  BY DEF Brief
<1>3. {"at", "who", "rule", "shown", "briefed"} \subseteq DOMAIN call[k]
  BY DEF Shaped
<1>4. /\ DOMAIN call' = DOMAIN call
      /\ \A j \in DOMAIN call \ {k} : call'[j] = call[j]
      /\ call'[k].who = call[k].who /\ call'[k].rule = call[k].rule
      /\ call'[k].shown = call[k].shown \/ call'[k].shown = x
  <2> HIDE DEF x
  <2>1. \/ call' = [call EXCEPT ![k] = [[[call[k] EXCEPT !.at = "over"] EXCEPT !.briefed = b] EXCEPT !.shown = x]]
        \/ call' = [call EXCEPT ![k] = [[call[k] EXCEPT !.at = "over"] EXCEPT !.briefed = b]]
    BY <1>1
  <2>2. /\ DOMAIN call' = DOMAIN call /\ \A j \in DOMAIN call \ {k} : call'[j] = call[j]
        /\ \/ call'[k] = [[[call[k] EXCEPT !.at = "over"] EXCEPT !.briefed = b] EXCEPT !.shown = x]
           \/ call'[k] = [[call[k] EXCEPT !.at = "over"] EXCEPT !.briefed = b]
    BY <2>1
  <2> QED
    BY <1>3, <2>2
<1> QED
  BY <1>2, <1>4 DEF CallsStay

(* A call that goes on without a briefing.                                 *)
LEMMA GoesStay ==
  ASSUME Shaped, NEW k \in DOMAIN call, call[k].at # "over", NEW to, Goes(k, to), config' = config
  PROVE  CallsStay /\ DOMAIN call' = DOMAIN call /\ call'[k].at = to
         /\ \A j \in DOMAIN call \ {k} : call'[j] = call[j]
BY DEF Goes, Shaped, CallsStay

(* The first step of the briefing shows nothing and ends no call of a      *)
(* rule.                                                                   *)
LEMMA CheckStays ==
  ASSUME Shaped, NEW k \in DOMAIN call, CheckPending(k)
  PROVE  CallsStay /\ DOMAIN call' = DOMAIN call
<1>1. PICK n : call' = [call EXCEPT ![k].number = n,
                        ![k].at = IF ~config.memory \/ n \in spent THEN "over" ELSE "inventory"]
  BY DEF CheckPending
<1> DEFINE to == IF ~config.memory \/ n \in spent THEN "over" ELSE "inventory"
<1> HIDE DEF to
<1>2. call' = [call EXCEPT ![k] = [[call[k] EXCEPT !.number = n] EXCEPT !.at = to]]
  BY <1>1 DEF to
<1>3. config' = config /\ call[k].at = "briefing"
  BY DEF CheckPending
<1> QED
  BY <1>2, <1>3 DEF Shaped, CallsStay

(* What the calls of a tenant are about is found again after a step.       *)
LEMMA OwnStays ==
  ASSUME CallsStay, NEW who, NEW r,
         \/ \E j \in DOMAIN call : call[j].who = who /\ call[j].rule = r
         \/ who = Deployment /\ r \in Legacy
  PROVE  \/ \E j \in DOMAIN call' : call'[j].who = who /\ call'[j].rule = r
         \/ who = Deployment' /\ r \in Legacy
<1>1. Deployment' = Deployment
  BY DEF CallsStay, Deployment, Principal
<1> QED
  BY <1>1 DEF CallsStay

(* A row of the global tier is one from the start.                         *)
LEMMA EveryonesRow ==
  ASSUME RowsInv, NEW i \in DOMAIN rows, rows[i].owner = Everyone
  PROVE  rows[i].rule \in config.tier
<1>1. Everyone # None /\ Everyone # Deployment /\ \A j \in DOMAIN call : call[j].who # Everyone
  BY PrincipalIsTenant, SessionsAssumption DEF Deployment, RowsInv, TypeInv, TypeOK
<1> QED
  BY <1>1 DEF RowsInv, RowIsOwn

(* Briefings show what the rows say, and the rows say what is own.         *)
LEMMA ShownStaysOwn ==
  ASSUME RowsInv, CallsStay, \A k \in DOMAIN call' \ DOMAIN call : call'[k].shown = {}
  PROVE  RulesAreOwn'
<1> SUFFICES ASSUME NEW k \in DOMAIN call', NEW r \in call'[k].shown
             PROVE  \/ \E j \in DOMAIN call' : call'[j].who = call'[k].who /\ call'[j].rule = r
                    \/ call'[k].who = Deployment' /\ r \in Legacy
                    \/ r \in config'.tier
  BY DEF RulesAreOwn
<1>1. PICK w : w = call[k].who
  OBVIOUS
<1>2. k \in DOMAIN call /\ call'[k].who = w
  BY <1>1 DEF CallsStay
<1>3. \/ \E j \in DOMAIN call : call[j].who = w /\ call[j].rule = r
      \/ w = Deployment /\ r \in Legacy
      \/ r \in config.tier
  <2>1. CASE r \in call[k].shown
    BY <1>1, <1>2, <2>1 DEF RowsInv, RulesAreOwn
  <2>2. CASE r \in {rows[i].rule : i \in Visible(w)}
    <3>1. PICK i \in DOMAIN rows : rows[i].owner \in {w, Everyone} /\ rows[i].rule = r
      BY <2>2 DEF Visible
    <3>2. w # None /\ Everyone # None
      BY <1>1, <1>2, SessionsAssumption DEF RowsInv, TypeInv, TypeOK
    <3>3. CASE rows[i].owner = Everyone
      BY <3>1, <3>2, <3>3, EveryonesRow
    <3>4. CASE rows[i].owner = w
      BY <3>1, <3>2, <3>4 DEF RowsInv, RowIsOwn
    <3> QED
      BY <3>1, <3>3, <3>4
  <2> QED
    BY <1>1, <1>2, <2>1, <2>2 DEF CallsStay
<1>4. \/ \E j \in DOMAIN call' : call'[j].who = w /\ call'[j].rule = r
      \/ w = Deployment' /\ r \in Legacy
      \/ r \in config'.tier
  BY <1>3, OwnStays DEF CallsStay
<1> QED
  BY <1>2, <1>4

(* Rows that stay as they are keep all that is said of them.               *)
LEMMA SameRows ==
  ASSUME RowsInv, CallsStay, rows' = rows, adopting' \subseteq adopting \/ adopting' = {},
         \A k \in DOMAIN call' \ DOMAIN call :
           k \in 1..MaxCalls /\ call'[k].shown = {} /\ (k \in DOMAIN rows => call'[k].at = "over"),
         \A p \in told' : p \in told \/ (p[1] \in Tenants /\ \E i \in Visible(p[1]) : rows[i].rule = p[2])
  PROVE  /\ RowsInPlace' /\ (\A i \in DOMAIN rows' : RowIsOwn(i)') /\ RulesAreOwn'
         /\ (\A p \in told' : p[1] \in Tenants) /\ RecordedIsKept'
<1>1. RowsInPlace'
  BY DEF RowsInv, RowsInPlace, CallsStay
<1>2. \A i \in DOMAIN rows' : RowIsOwn(i)'
  <2> SUFFICES ASSUME NEW i \in DOMAIN rows PROVE RowIsOwn(i)'
    OBVIOUS
  <2>1. RowIsOwn(i)
    BY DEF RowsInv
  <2>2. CASE rows[i].owner = None
    BY <2>1, <2>2 DEF RowIsOwn
  <2>3. CASE rows[i].owner \notin {None, Everyone}
    <3>1. PICK w, r : w = rows[i].owner /\ r = rows[i].rule
      OBVIOUS
    <3>2. \/ \E j \in DOMAIN call : call[j].who = w /\ call[j].rule = r
          \/ w = Deployment /\ r \in Legacy
      BY <2>1, <2>3, <3>1 DEF RowIsOwn
    <3>3. \/ \E j \in DOMAIN call' : call'[j].who = w /\ call'[j].rule = r
          \/ w = Deployment' /\ r \in Legacy
      BY <3>2, OwnStays
    <3>4. rows'[i].owner = w /\ rows'[i].rule = r /\ w # None
      BY <2>3, <3>1
    <3> QED
      BY <3>3, <3>4 DEF RowIsOwn
  <2>4. CASE rows[i].owner = Everyone
    <3>1. rows'[i].owner = Everyone /\ rows'[i].rule \in config'.tier /\ Everyone # None
      BY <2>4, EveryonesRow, SessionsAssumption DEF CallsStay
    <3> QED
      BY <3>1 DEF RowIsOwn
  <2> QED
    BY <2>2, <2>3, <2>4
<1>3. \A p \in told' : p[1] \in Tenants
  BY DEF RowsInv
<1>4. RecordedIsKept'
  BY DEF RowsInv, RecordedIsKept, Visible
<1> QED
  BY <1>1, <1>2, <1>3, <1>4, ShownStaysOwn

(* A row without an owner becomes the deployment's.                        *)
LEMMA AdoptRows ==
  ASSUME RowsInv, NEW i \in adopting, rows' = [rows EXCEPT ![i].owner = Deployment],
         adopting' = adopting \ {i}, UNCHANGED <<config, call, told>>
  PROVE  /\ RowsInPlace' /\ (\A j \in DOMAIN rows' : RowIsOwn(j)') /\ RulesAreOwn'
         /\ (\A p \in told' : p[1] \in Tenants) /\ RecordedIsKept'
<1>1. Shaped /\ CallsStay /\ Deployment' = Deployment /\ Deployment # None
  BY PrincipalIsTenant, SessionsAssumption DEF RowsInv, TypeInv, CallsStay, Deployment, Principal
<1>2. /\ DOMAIN rows' = DOMAIN rows
      /\ \A j \in DOMAIN rows : rows'[j].rule = rows[j].rule
      /\ \A j \in DOMAIN rows \ {i} : rows'[j] = rows[j]
      /\ i \in DOMAIN rows => rows'[i].owner = Deployment /\ rows[i].owner = None
  BY <1>1 DEF Shaped, RowsInv, RowsInPlace
<1>3. RowsInPlace'
  BY <1>2 DEF RowsInv, RowsInPlace
<1>4. \A j \in DOMAIN rows' : RowIsOwn(j)'
  BY <1>1, <1>2 DEF RowsInv, RowIsOwn
<1>5. Everyone # None /\ \A p \in told : p[1] # None
  BY SessionsAssumption DEF RowsInv
<1>6. RecordedIsKept'
  BY <1>2, <1>5 DEF RowsInv, RecordedIsKept, Visible
<1> QED
  BY <1>1, <1>3, <1>4, <1>6, ShownStaysOwn DEF RowsInv

(* A row that is inserted is new, and its caller's.                        *)
LEMMA InsertRows ==
  ASSUME RowsInv, NEW k \in DOMAIN call, Insert(k)
  PROVE  /\ RowsInPlace' /\ (\A j \in DOMAIN rows' : RowIsOwn(j)') /\ RulesAreOwn'
         /\ (\A p \in told' : p[1] \in Tenants) /\ RecordedIsKept'
<1>1. /\ UNCHANGED <<config, adopting>> /\ Shaped /\ call[k].at = "insert" /\ Goes(k, "over")
      /\ call[k].who \in Tenants /\ call[k].who # None
  BY SessionsAssumption DEF Insert, RowsInv, TypeInv, TypeOK
<1>2. /\ CallsStay /\ DOMAIN call' = DOMAIN call /\ call'[k].at = "over"
      /\ \A j \in DOMAIN call \ {k} : call'[j] = call[j]
  BY <1>1, GoesStay
<1>3. CASE rows' = rows /\ told' = told
  BY <1>1, <1>2, <1>3, SameRows
<1>4. CASE NewRow(k) /\ told' \in {told, told \cup {<<call[k].who, call[k].rule>>}}
  <2>1. k \notin DOMAIN rows
    BY <1>1 DEF RowsInv, RowsInPlace
  <2>2. /\ DOMAIN rows' = DOMAIN rows \cup {k}
        /\ \A j \in DOMAIN rows : rows'[j] = rows[j]
        /\ rows'[k].owner = call[k].who /\ rows'[k].rule = call[k].rule
    BY <1>4, <2>1 DEF NewRow
  <2>3. RowsInPlace'
    <3>1. k \notin adopting \/ k \notin DOMAIN rows
      BY <2>1
    <3>2. adopting = {}
      BY <1>1 DEF RowsInv, TypeInv, TypeOK
    <3> QED
      BY <1>1, <1>2, <2>2, <3>2 DEF RowsInv, RowsInPlace
  <2>4. \A j \in DOMAIN rows' : RowIsOwn(j)'
    <3>1. RowIsOwn(k)'
      BY <1>1, <1>2, <2>2 DEF RowIsOwn, CallsStay
    <3>2. ASSUME NEW j \in DOMAIN rows PROVE RowIsOwn(j)'
      <4>1. RowIsOwn(j) /\ rows'[j] = rows[j]
        BY <2>2 DEF RowsInv
      <4>2. CASE rows[j].owner = None
        BY <4>1, <4>2 DEF RowIsOwn
      <4>3. CASE rows[j].owner \notin {None, Everyone}
        <5>0. PICK w, r : w = rows[j].owner /\ r = rows[j].rule
          OBVIOUS
        <5>1. \/ \E i \in DOMAIN call : call[i].who = w /\ call[i].rule = r
              \/ w = Deployment /\ r \in Legacy
          BY <4>1, <4>3, <5>0 DEF RowIsOwn
        <5>2. \/ \E i \in DOMAIN call' : call'[i].who = w /\ call'[i].rule = r
              \/ w = Deployment' /\ r \in Legacy
          BY <1>2, <5>1, OwnStays
        <5> QED
          BY <4>1, <4>3, <5>0, <5>2 DEF RowIsOwn
      <4>4. CASE rows[j].owner = Everyone
        <5>1. rows'[j].owner = Everyone /\ rows'[j].rule \in config'.tier /\ Everyone # None
          BY <1>2, <4>1, <4>4, EveryonesRow, SessionsAssumption DEF CallsStay
        <5> QED
          BY <5>1 DEF RowIsOwn
      <4> QED
        BY <4>2, <4>3, <4>4
    <3> QED
      BY <2>2, <3>1, <3>2
  <2>5. \A p \in told' : p[1] \in Tenants
    BY <1>1, <1>4 DEF RowsInv
  <2>6. RecordedIsKept'
    BY <1>4, <2>2 DEF RowsInv, RecordedIsKept, Visible
  <2> QED
    BY <1>2, <2>3, <2>4, <2>5, <2>6, ShownStaysOwn
<1> QED
  BY <1>3, <1>4 DEF Insert, InsertRow

(* Every step keeps the rows and what was told of them.                    *)
LEMMA StepRows == RowsInv /\ [Next]_vars => RowsInv'
<1> SUFFICES ASSUME RowsInv, [Next]_vars PROVE RowsInv'
  OBVIOUS
<1>0. TypeInv' /\ Shaped
  BY StepType DEF RowsInv, TypeInv
<1> DEFINE Goal == /\ RowsInPlace' /\ (\A i \in DOMAIN rows' : RowIsOwn(i)') /\ RulesAreOwn'
                   /\ (\A p \in told' : p[1] \in Tenants) /\ RecordedIsKept'
<1> SUFFICES Goal
  BY <1>0 DEF RowsInv
<1> HIDE DEF Goal
<1>1. CASE UNCHANGED vars
  BY <1>1, SameRows DEF vars, CallsStay, Goal
<1>2. CASE Starting
  <2>1. UNCHANGED <<config, call, told>> /\ CallsStay
    BY <1>2 DEF Starting, ReadUnowned, Adopt, Serve, CallsStay
  <2>2. CASE ReadUnowned
    <3>1. rows' = rows /\ adopting' \subseteq Unowned
      BY <2>2 DEF ReadUnowned
    <3>2. RowsInPlace'
      BY <2>1, <3>1 DEF RowsInv, RowsInPlace, Unowned
    <3>3. \A i \in DOMAIN rows' : RowIsOwn(i)'
      <4>1. Deployment' = Deployment
        BY <2>1 DEF Deployment, Principal
      <4> QED
        BY <2>1, <3>1, <4>1 DEF RowsInv, RowIsOwn
    <3>4. RecordedIsKept' /\ \A p \in told' : p[1] \in Tenants
      BY <2>1, <3>1 DEF RowsInv, RecordedIsKept, Visible
    <3> QED
      BY <2>1, <3>2, <3>3, <3>4, ShownStaysOwn DEF Goal
  <2>3. ASSUME NEW i \in adopting, Adopt(i) PROVE Goal
    <3>1. CASE rows' = rows
      BY <2>1, <2>3, <3>1, SameRows DEF Adopt, Goal
    <3>2. CASE rows' = [rows EXCEPT ![i].owner = Deployment] /\ adopting' = adopting \ {i}
      BY <2>1, <3>2, AdoptRows DEF Goal
    <3> QED
      BY <2>3, <3>1, <3>2 DEF Adopt
  <2>4. CASE Serve
    BY <2>1, <2>4, SameRows DEF Serve, Goal
  <2> QED
    BY <1>2, <2>2, <2>3, <2>4 DEF Starting
<1>3. CASE Restart
  <2>1. /\ DOMAIN call' = DOMAIN call /\ UNCHANGED <<config, rows, told>> /\ adopting' = {}
        /\ \A k \in DOMAIN call : call'[k] = [call[k] EXCEPT !.at = "over"]
    BY <1>3 DEF Restart
  <2>2. CallsStay
    BY <1>0, <2>1 DEF Shaped, CallsStay
  <2> QED
    BY <2>1, <2>2, SameRows DEF Goal
<1>4. ASSUME NEW k \in 1..MaxCalls, NEW c, NEW cred, NEW tool, NEW rule, Request(k, c, cred, tool, rule)
      PROVE  Goal
  <2>1. /\ UNCHANGED <<config, adopting, rows, told>>
        /\ DOMAIN call' = DOMAIN call \cup {k} /\ \A j \in DOMAIN call \ {k} : call'[j] = call[j]
        /\ call'[k].shown = {} /\ DOMAIN call = 1..(k - 1)
    BY <1>4 DEF Request
  <2>2. k \notin DOMAIN call /\ k \notin Legacy /\ k \notin config.tier
    BY <2>1, SessionsAssumption DEF RowsInv, RowsInPlace
  <2>3. CallsStay /\ k \notin DOMAIN rows
    BY <2>1, <2>2 DEF CallsStay, RowsInv, RowsInPlace
  <2> QED
    BY <2>1, <2>3, SameRows DEF Goal
<1>5. ASSUME NEW c, Drop(c) PROVE Goal
  BY <1>5, SameRows DEF Drop, CallsStay, Goal
<1>6. ASSUME NEW k \in DOMAIN call, CheckPending(k) \/ Brief(k) PROVE Goal
  <2>1. CallsStay /\ DOMAIN call' = DOMAIN call
    BY <1>0, <1>6, CheckStays, BriefShows
  <2> QED
    BY <1>6, <2>1, SameRows DEF CheckPending, Brief, Goal
<1>7. ASSUME NEW k \in DOMAIN call, Inventory(k) PROVE Goal
  <2>1. PICK to : Goes(k, to)
    BY <1>7 DEF Inventory
  <2>2. CallsStay /\ DOMAIN call' = DOMAIN call
    BY <1>0, <1>7, <2>1, GoesStay DEF Inventory
  <2> QED
    BY <1>7, <2>2, SameRows DEF Inventory, Goal
<1>8. ASSUME NEW k \in DOMAIN call, ReadCurrent(k) PROVE Goal
  <2>1. PICK to : Goes(k, to)
    BY <1>8 DEF ReadCurrent
  <2>2. CallsStay /\ DOMAIN call' = DOMAIN call
    BY <1>0, <1>8, <2>1, GoesStay DEF ReadCurrent
  <2>3. call[k].who \in Tenants /\ UNCHANGED <<adopting, rows>>
    BY <1>8 DEF ReadCurrent, RowsInv, TypeInv, TypeOK
  <2>4. \/ told' = told
        \/ /\ call[k].rule \in {rows[i].rule : i \in Visible(call[k].who)}
           /\ told' = told \cup {<<call[k].who, call[k].rule>>}
    BY <1>8 DEF ReadCurrent
  <2>5. \A p \in told' : p \in told \/ (p[1] \in Tenants /\ \E i \in Visible(p[1]) : rows[i].rule = p[2])
    BY <2>3, <2>4
  <2> QED
    BY <2>2, <2>3, <2>5, SameRows DEF Goal
<1>9. ASSUME NEW k \in DOMAIN call, Insert(k) PROVE Goal
  BY <1>9, InsertRows DEF Goal
<1> QED
  BY <1>1, <1>2, <1>3, <1>4, <1>5, <1>6, <1>7, <1>8, <1>9 DEF Next

-----------------------------------------------------------------------------
(* Briefings.                                                              *)

(* Another tenant has called on the key.                                   *)
Another(calls, key, who) == \E j \in DOMAIN calls : calls[j].key = key /\ calls[j].who # who

(* The key's scope is the one of this number, made for this tenant.        *)
Live(scopes, key, who, n) ==
  key \in DOMAIN scopes /\ scopes[key].who = who /\ scopes[key].number = n

(* Who was briefed still has the scope whose briefing is spent, or has     *)
(* lost it to another tenant.                                              *)
HeardIsSpent ==
  \A h \in heard : Another(call, h[1], h[2]) \/ \E n \in spent : Live(scope, h[1], h[2], n)

(* A call under way to its briefing is on the key's scope, or has lost it; *)
(* a late one has lost it.                                                 *)
BriefingLate(k) ==
  LET c == call[k] IN
  /\ c.briefed => c.at = "over"
  /\ c.at \in {"inventory", "preferences"} =>
       Another(call, c.key, c.who) \/ Live(scope, c.key, c.who, c.number)
  /\ c.late /\ c.at # "over" => <<c.key, c.who>> \in heard
  /\ c.late /\ (c.at \in {"inventory", "preferences"} \/ c.briefed) => Another(call, c.key, c.who)

BriefInv ==
  /\ TypeInv /\ HeardIsSpent
  /\ \A k \in DOMAIN call : BriefingLate(k)
  /\ \A n \in spent : \E k \in DOMAIN call : call[k].number = n /\ call[k].briefed

(* At the start nobody was briefed.                                        *)
LEMMA InitBrief == Init => BriefInv
<1> SUFFICES ASSUME Init PROVE BriefInv
  OBVIOUS
<1>1. heard = {} /\ spent = {} /\ DOMAIN call = {} /\ TypeInv
  BY InitType DEF Init
<1> QED
  BY <1>1 DEF BriefInv, HeardIsSpent

(* What a step leaves of the calls made before it.                         *)
CallsGrow ==
  /\ DOMAIN call \subseteq DOMAIN call'
  /\ \A k \in DOMAIN call : call'[k].key = call[k].key /\ call'[k].who = call[k].who

(* Who has called stays called.                                            *)
LEMMA AnotherStays ==
  ASSUME CallsGrow, NEW key, NEW who, Another(call, key, who)
  PROVE  Another(call', key, who)
BY DEF CallsGrow, Another

(* What is true of a call's briefing stays true while the call does not    *)
(* move, unless its scope goes to a call of the same tenant.               *)
LEMMA LateStays ==
  ASSUME BriefInv, CallsGrow, NEW k \in DOMAIN call, call'[k] = call[k],
         call[k].at = "over" \/ <<call[k].key, call[k].who>> \notin heard
           \/ <<call[k].key, call[k].who>> \in heard',
         call[k].at = "over" \/ Another(call', call[k].key, call[k].who)
           \/ \A n : Live(scope, call[k].key, call[k].who, n) => Live(scope', call[k].key, call[k].who, n)
  PROVE  BriefingLate(k)'
<1>1. BriefingLate(k)
  BY DEF BriefInv
<1>2. Another(call, call[k].key, call[k].who) => Another(call', call[k].key, call[k].who)
  BY AnotherStays
<1> QED
  BY <1>1, <1>2 DEF BriefingLate

(* The briefings that were given stay given.                               *)
LEMMA SpentStays ==
  ASSUME BriefInv, CallsGrow, spent' = spent,
         \A k \in DOMAIN call : call[k].at = "over" =>
           call'[k].number = call[k].number /\ call'[k].briefed = call[k].briefed
  PROVE  \A n \in spent' : \E k \in DOMAIN call' : call'[k].number = n /\ call'[k].briefed
<1> SUFFICES ASSUME NEW n \in spent
             PROVE  \E k \in DOMAIN call' : call'[k].number = n /\ call'[k].briefed
  OBVIOUS
<1>1. PICK k \in DOMAIN call : call[k].number = n /\ call[k].briefed
  BY DEF BriefInv
<1>2. call[k].at = "over"
  BY <1>1 DEF BriefInv, BriefingLate
<1> QED
  BY <1>1, <1>2 DEF CallsGrow

(* Where for_call makes a scope, whoever had the old one has lost it to    *)
(* the caller; where it finds one, nothing changes.                        *)
LEMMA ForCallTakes ==
  ASSUME CallsGrow, NEW k \in DOMAIN call, NEW n, ForCall(call[k].key, call[k].who, n),
         NEW key, NEW who, NEW m, Live(scope, key, who, m)
  PROVE  Another(call', key, who) \/ Live(scope', key, who, m)
<1>1. CASE key = call[k].key /\ who # call[k].who
  BY <1>1 DEF CallsGrow, Another
<1>2. CASE key = call[k].key /\ who = call[k].who
  BY <1>2 DEF ForCall, Holds, Live
<1>3. CASE key # call[k].key
  <2>1. CASE Holds(call[k].key, call[k].who)
    BY <2>1 DEF ForCall, Live
  <2>2. CASE ~Holds(call[k].key, call[k].who)
    <3>1. scope' = [x \in DOMAIN scope \cup {call[k].key} |->
             IF x = call[k].key THEN [who |-> call[k].who, number |-> made + 1] ELSE scope[x]]
      BY <2>2 DEF ForCall
    <3>2. key \in DOMAIN scope' /\ scope'[key] = scope[key]
      BY <1>3, <3>1 DEF Live
    <3> QED
      BY <3>2 DEF Live
  <2> QED
    BY <2>1, <2>2
<1> QED
  BY <1>1, <1>2, <1>3

(* for_call returns the key's scope.                                       *)
LEMMA ForCallLive ==
  ASSUME ScopesOK, made \in Nat, NEW key \in Keys, NEW who \in Tenants, NEW n, ForCall(key, who, n)
  PROVE  Live(scope', key, who, n)
BY ForCallGives DEF Live

(* Who was briefed keeps the spent scope or loses it, as for_call decides. *)
LEMMA ForCallHeard ==
  ASSUME BriefInv, CallsGrow, NEW k \in DOMAIN call, NEW n, ForCall(call[k].key, call[k].who, n),
         UNCHANGED <<spent, heard>>
  PROVE  HeardIsSpent'
<1> SUFFICES ASSUME NEW h \in heard
             PROVE  Another(call', h[1], h[2]) \/ \E m \in spent : Live(scope', h[1], h[2], m)
  BY DEF HeardIsSpent
<1>1. Another(call, h[1], h[2]) \/ \E m \in spent : Live(scope, h[1], h[2], m)
  BY DEF BriefInv, HeardIsSpent
<1> QED
  BY <1>1, AnotherStays, ForCallTakes

(* A call that goes on, or ends, is as late as it was and not briefed.     *)
LEMMA GoesLate ==
  ASSUME Shaped, NEW k \in DOMAIN call, NEW to, Goes(k, to)
  PROVE  /\ CallsGrow /\ DOMAIN call' = DOMAIN call /\ \A j \in DOMAIN call \ {k} : call'[j] = call[j]
         /\ call'[k].at = to /\ call'[k].number = call[k].number
         /\ call'[k].briefed = call[k].briefed /\ call'[k].late = call[k].late
BY DEF Goes, Shaped, CallsGrow

(* The steps of a start: no call is under way.                             *)
LEMMA StartBrief ==
  ASSUME BriefInv, UNCHANGED <<scope, spent, call, heard>>
  PROVE  HeardIsSpent' /\ (\A k \in DOMAIN call' : BriefingLate(k)')
         /\ \A n \in spent' : \E k \in DOMAIN call' : call'[k].number = n /\ call'[k].briefed
BY DEF BriefInv, HeardIsSpent, BriefingLate

(* A restart ends the calls and forgets who was briefed.                   *)
LEMMA RestartBrief ==
  ASSUME BriefInv, Restart
  PROVE  HeardIsSpent' /\ (\A k \in DOMAIN call' : BriefingLate(k)')
         /\ \A n \in spent' : \E k \in DOMAIN call' : call'[k].number = n /\ call'[k].briefed
<1>1. /\ DOMAIN call' = DOMAIN call /\ heard' = {} /\ spent' = spent
      /\ \A k \in DOMAIN call : call'[k] = [call[k] EXCEPT !.at = "over"]
  BY DEF Restart
<1>2. \A k \in DOMAIN call :
        /\ call'[k].at = "over" /\ call'[k].key = call[k].key /\ call'[k].who = call[k].who
        /\ call'[k].number = call[k].number
        /\ call'[k].briefed = call[k].briefed /\ call'[k].late = call[k].late
  BY <1>1 DEF BriefInv, TypeInv, Shaped
<1>3. CallsGrow
  BY <1>1, <1>2 DEF CallsGrow
<1>4. HeardIsSpent'
  BY <1>1 DEF HeardIsSpent
<1>5. ASSUME NEW k \in DOMAIN call PROVE BriefingLate(k)'
  <2>1. BriefingLate(k)
    BY DEF BriefInv
  <2>2. Another(call, call[k].key, call[k].who) => Another(call', call[k].key, call[k].who)
    BY <1>3, AnotherStays
  <2> QED
    BY <1>2, <2>1, <2>2 DEF BriefingLate
<1> QED
  BY <1>1, <1>2, <1>3, <1>4, <1>5, SpentStays

(* A request: a call is late when its tenant was briefed on its key.       *)
LEMMA RequestBrief ==
  ASSUME BriefInv, NEW k, NEW c, NEW cred, NEW tool \in {"briefing", "remember"}, NEW rule,
         Request(k, c, cred, tool, rule), k \notin DOMAIN call
  PROVE  HeardIsSpent' /\ (\A j \in DOMAIN call' : BriefingLate(j)')
         /\ \A n \in spent' : \E j \in DOMAIN call' : call'[j].number = n /\ call'[j].briefed
<1> DEFINE late == <<Key(c, Principal(Taken(cred))), Principal(Taken(cred))>> \in heard
<1>1. /\ UNCHANGED <<scope, spent, heard>>
      /\ DOMAIN call' = DOMAIN call \cup {k}
      /\ \A j \in DOMAIN call \ {k} : call'[j] = call[j]
      /\ call'[k].at = tool /\ ~call'[k].briefed
      /\ call'[k].key = Key(c, Principal(Taken(cred))) /\ call'[k].who = Principal(Taken(cred))
  BY DEF Request
<1>2. call'[k].late => late
  BY DEF Request
<1>3. CallsGrow
  BY <1>1 DEF CallsGrow
<1>4. HeardIsSpent'
  BY <1>1, <1>3, AnotherStays DEF BriefInv, HeardIsSpent
<1>5. ASSUME NEW j \in DOMAIN call PROVE BriefingLate(j)'
  BY <1>1, <1>3, LateStays
<1>6. BriefingLate(k)'
  BY <1>1, <1>2 DEF BriefingLate
<1> QED
  BY <1>1, <1>3, <1>4, <1>5, <1>6, SpentStays

(* A connection that goes takes along who was briefed on it.               *)
LEMMA DropBrief ==
  ASSUME BriefInv, NEW c, Drop(c)
  PROVE  HeardIsSpent' /\ (\A j \in DOMAIN call' : BriefingLate(j)')
         /\ \A n \in spent' : \E j \in DOMAIN call' : call'[j].number = n /\ call'[j].briefed
<1>1. /\ UNCHANGED <<spent, call>> /\ heard' = {h \in heard : h[1] # c}
      /\ \A k \in DOMAIN call : call[k].key = c => call[k].at = "over"
      /\ scope' = [x \in DOMAIN scope \ {c} |-> scope[x]]
  BY DEF Drop
<1>2. CallsGrow
  BY <1>1 DEF CallsGrow
<1>3. ASSUME NEW key, key # c, NEW who, NEW n, Live(scope, key, who, n) PROVE Live(scope', key, who, n)
  BY <1>1, <1>3 DEF Live
<1>4. HeardIsSpent'
  BY <1>1, <1>3 DEF BriefInv, HeardIsSpent
<1>5. ASSUME NEW j \in DOMAIN call PROVE BriefingLate(j)'
  <2>1. CASE call[j].key = c
    BY <1>1, <1>2, <2>1, LateStays
  <2>2. CASE call[j].key # c
    <3>1. \A n : Live(scope, call[j].key, call[j].who, n) => Live(scope', call[j].key, call[j].who, n)
      BY <1>3, <2>2
    <3>2. <<call[j].key, call[j].who>> \in heard => <<call[j].key, call[j].who>> \in heard'
      BY <1>1, <2>2
    <3> QED
      BY <1>1, <1>2, <3>1, <3>2, LateStays
  <2> QED
    BY <2>1, <2>2
<1> QED
  BY <1>1, <1>2, <1>4, <1>5, SpentStays

(* A call that moves on its own, where the scopes and who was briefed      *)
(* change as for_call changes them: the others stay as late as they were.  *)
LEMMA OthersLate ==
  ASSUME BriefInv, CallsGrow, NEW k \in DOMAIN call, NEW j \in DOMAIN call \ {k}, call'[j] = call[j],
         heard \subseteq heard',
         scope' = scope \/ \E n : ForCall(call[k].key, call[k].who, n)
  PROVE  BriefingLate(j)'
<1>1. ASSUME NEW m, Live(scope, call[j].key, call[j].who, m)
      PROVE  Another(call', call[j].key, call[j].who) \/ Live(scope', call[j].key, call[j].who, m)
  BY <1>1, ForCallTakes
<1> QED
  BY <1>1, LateStays

(* The first step of the briefing: a late call finds the spent scope, and  *)
(* ends, or has lost it.                                                   *)
LEMMA CheckBrief ==
  ASSUME BriefInv, NEW k \in DOMAIN call, CheckPending(k)
  PROVE  HeardIsSpent' /\ (\A j \in DOMAIN call' : BriefingLate(j)')
         /\ \A n \in spent' : \E j \in DOMAIN call' : call'[j].number = n /\ call'[j].briefed
<1>1. PICK n \in 1..(made + 1) :
        /\ ForCall(call[k].key, call[k].who, n)
        /\ call' = [call EXCEPT ![k].number = n,
                                ![k].at = IF ~config.memory \/ n \in spent THEN "over" ELSE "inventory"]
  BY DEF CheckPending
<1> DEFINE to == IF ~config.memory \/ n \in spent THEN "over" ELSE "inventory"
<1>2. to \in {"inventory", "over"} /\ (n \in spent => to = "over")
  OBVIOUS
<1> HIDE DEF to
<1>3. call' = [call EXCEPT ![k] = [[call[k] EXCEPT !.number = n] EXCEPT !.at = to]]
  BY <1>1 DEF to
<1>4. /\ DOMAIN call' = DOMAIN call /\ \A j \in DOMAIN call \ {k} : call'[j] = call[j]
      /\ call'[k] = [[call[k] EXCEPT !.number = n] EXCEPT !.at = to]
  BY <1>3
<1>5. /\ call'[k].key = call[k].key /\ call'[k].who = call[k].who
      /\ call'[k].number = n /\ call'[k].at = to
      /\ call'[k].briefed = call[k].briefed /\ call'[k].late = call[k].late
  BY <1>4 DEF BriefInv, TypeInv, Shaped
<1>6. UNCHANGED <<spent, heard>> /\ call[k].at = "briefing" /\ CallsGrow
  BY <1>4, <1>5 DEF CheckPending, CallsGrow
<1>7. HeardIsSpent'
  BY <1>1, <1>6, ForCallHeard
<1>8. ASSUME NEW j \in DOMAIN call \ {k} PROVE BriefingLate(j)'
  BY <1>1, <1>4, <1>6, OthersLate
<1>9. BriefingLate(k)'
  <2>1. ~call[k].briefed /\ (call[k].late => <<call[k].key, call[k].who>> \in heard)
    BY <1>6 DEF BriefInv, BriefingLate
  <2>2. Live(scope', call[k].key, call[k].who, n)
    <3>1. ScopesOK /\ CallsOK /\ made \in Nat
      BY TypeParts DEF BriefInv, TypeInv
    <3>2. call[k].key \in Keys /\ call[k].who \in Tenants
      BY <3>1 DEF CallsOK
    <3>3. ForCall(call[k].key, call[k].who, n)
      BY <1>1
    <3> QED
      BY <3>1, <3>2, <3>3, ForCallLive
  <2>3. CASE to = "inventory" /\ call[k].late
    <3>1. n \notin spent
      BY <1>2, <2>3
    <3>2. \A m \in spent : ~Live(scope', call[k].key, call[k].who, m)
      BY <2>2, <3>1 DEF Live
    <3>3. <<call[k].key, call[k].who>> \in heard'
      BY <1>6, <2>1, <2>3
    <3>4. \A h \in heard' : Another(call', h[1], h[2]) \/ \E m \in spent' : Live(scope', h[1], h[2], m)
      BY <1>7 DEF HeardIsSpent
    <3>5. Another(call', call[k].key, call[k].who)
          \/ \E m \in spent' : Live(scope', call[k].key, call[k].who, m)
      BY <3>3, <3>4
    <3>6. Another(call', call[k].key, call[k].who)
      BY <1>6, <3>2, <3>5
    <3> QED
      BY <1>5, <1>6, <2>1, <3>6 DEF BriefingLate
  <2>4. CASE to = "inventory" /\ ~call[k].late
    BY <1>5, <2>1, <2>2, <2>4 DEF BriefingLate
  <2>5. CASE to = "over"
    BY <1>5, <2>1, <2>5 DEF BriefingLate
  <2> QED
    BY <1>2, <2>3, <2>4, <2>5
<1>10. \A m \in spent' : \E j \in DOMAIN call' : call'[j].number = m /\ call'[j].briefed
  <2>1. \A j \in DOMAIN call : call[j].at = "over" =>
          call'[j].number = call[j].number /\ call'[j].briefed = call[j].briefed
    BY <1>4, <1>6
  <2> QED
    BY <1>6, <2>1, SpentStays
<1> QED
  BY <1>4, <1>7, <1>8, <1>9, <1>10

(* The inventory of the briefing goes on with the same scope.              *)
LEMMA InventoryBrief ==
  ASSUME BriefInv, NEW k \in DOMAIN call, Inventory(k)
  PROVE  HeardIsSpent' /\ (\A j \in DOMAIN call' : BriefingLate(j)')
         /\ \A n \in spent' : \E j \in DOMAIN call' : call'[j].number = n /\ call'[j].briefed
<1>1. UNCHANGED <<scope, spent, heard>> /\ call[k].at = "inventory" /\ Shaped
  BY DEF Inventory, BriefInv, TypeInv
<1>2. PICK to \in {"preferences", "over"} : Goes(k, to)
  BY DEF Inventory
<1>3. /\ CallsGrow /\ DOMAIN call' = DOMAIN call /\ \A j \in DOMAIN call \ {k} : call'[j] = call[j]
      /\ call'[k].at = to /\ call'[k].number = call[k].number
      /\ call'[k].briefed = call[k].briefed /\ call'[k].late = call[k].late
  BY <1>1, <1>2, GoesLate
<1>4. HeardIsSpent'
  BY <1>1, <1>3, AnotherStays DEF BriefInv, HeardIsSpent
<1>5. ASSUME NEW j \in DOMAIN call \ {k} PROVE BriefingLate(j)'
  BY <1>1, <1>3, OthersLate
<1>6. BriefingLate(k)'
  <2>1. BriefingLate(k)
    BY DEF BriefInv
  <2>2. Another(call, call[k].key, call[k].who) => Another(call', call[k].key, call[k].who)
    BY <1>3, AnotherStays
  <2>3. call'[k].key = call[k].key /\ call'[k].who = call[k].who
    BY <1>3 DEF CallsGrow
  <2> QED
    BY <1>1, <1>3, <2>1, <2>2, <2>3 DEF BriefingLate
<1> QED
  BY <1>1, <1>3, <1>4, <1>5, <1>6, SpentStays

(* The briefing is attached, and recorded as given.                        *)
LEMMA BriefGives ==
  ASSUME Shaped, NEW k \in DOMAIN call, Brief(k)
  PROVE  /\ CallsGrow /\ DOMAIN call' = DOMAIN call /\ \A j \in DOMAIN call \ {k} : call'[j] = call[j]
         /\ call'[k].at = "over" /\ call'[k].number = call[k].number
         /\ call'[k].briefed /\ call'[k].late = call[k].late
<1>0. PICK b \in BOOLEAN : b /\
        \E x : \/ call' = [call EXCEPT ![k].at = "over", ![k].briefed = b, ![k].shown = x]
               \/ call' = [call EXCEPT ![k].at = "over", ![k].briefed = b]
  BY Zenon DEF Brief
<1>1. PICK x : \/ call' = [call EXCEPT ![k].at = "over", ![k].briefed = b, ![k].shown = x]
               \/ call' = [call EXCEPT ![k].at = "over", ![k].briefed = b]
  BY <1>0
<1>2. \/ call' = [call EXCEPT ![k] = [[[call[k] EXCEPT !.at = "over"] EXCEPT !.briefed = b] EXCEPT !.shown = x]]
      \/ call' = [call EXCEPT ![k] = [[call[k] EXCEPT !.at = "over"] EXCEPT !.briefed = b]]
  BY <1>1
<1>3. /\ DOMAIN call' = DOMAIN call /\ \A j \in DOMAIN call \ {k} : call'[j] = call[j]
      /\ \/ call'[k] = [[[call[k] EXCEPT !.at = "over"] EXCEPT !.briefed = b] EXCEPT !.shown = x]
         \/ call'[k] = [[call[k] EXCEPT !.at = "over"] EXCEPT !.briefed = b]
  BY <1>2
<1>4. /\ call'[k].at = "over" /\ call'[k].number = call[k].number /\ call'[k].late = call[k].late
      /\ call'[k].key = call[k].key /\ call'[k].who = call[k].who
  BY <1>3 DEF Shaped
<1>5. call'[k].briefed = b
  BY <1>3 DEF Shaped
<1>6. call'[k].briefed
  BY <1>0, <1>5, Zenon
<1> QED
  BY <1>3, <1>4, <1>6 DEF CallsGrow

(* A briefing spends the scope it was given on.                            *)
LEMMA BriefBrief ==
  ASSUME BriefInv, NEW k \in DOMAIN call, Brief(k)
  PROVE  HeardIsSpent' /\ (\A j \in DOMAIN call' : BriefingLate(j)')
         /\ \A n \in spent' : \E j \in DOMAIN call' : call'[j].number = n /\ call'[j].briefed
<1>1. /\ scope' = scope /\ call[k].at = "preferences" /\ spent' = spent \cup {call[k].number}
      /\ heard' = heard \cup {<<call[k].key, call[k].who>>}
  BY DEF Brief, Spend
<1>2. /\ CallsGrow /\ DOMAIN call' = DOMAIN call /\ \A j \in DOMAIN call \ {k} : call'[j] = call[j]
      /\ call'[k].at = "over" /\ call'[k].number = call[k].number
      /\ call'[k].briefed /\ call'[k].late = call[k].late
  BY BriefGives DEF BriefInv, TypeInv
<1>3. /\ Another(call, call[k].key, call[k].who) \/ Live(scope, call[k].key, call[k].who, call[k].number)
      /\ call[k].late => Another(call, call[k].key, call[k].who)
  BY <1>1 DEF BriefInv, BriefingLate
<1>4. Another(call, call[k].key, call[k].who) => Another(call', call[k].key, call[k].who)
  BY <1>2, AnotherStays
<1>5. HeardIsSpent'
  <2> SUFFICES ASSUME NEW h \in heard'
               PROVE  Another(call', h[1], h[2]) \/ \E n \in spent' : Live(scope', h[1], h[2], n)
    BY DEF HeardIsSpent
  <2>1. CASE h \in heard
    <3>1. Another(call, h[1], h[2]) \/ \E n \in spent : Live(scope, h[1], h[2], n)
      BY <2>1 DEF BriefInv, HeardIsSpent
    <3> QED
      BY <1>1, <1>2, <3>1, AnotherStays
  <2>2. CASE h = <<call[k].key, call[k].who>>
    BY <1>1, <1>3, <1>4, <2>2
  <2> QED
    BY <1>1, <2>1, <2>2
<1>6. ASSUME NEW j \in DOMAIN call \ {k} PROVE BriefingLate(j)'
  BY <1>1, <1>2, OthersLate
<1>7. BriefingLate(k)'
  <2>1. call'[k].key = call[k].key /\ call'[k].who = call[k].who
    BY <1>2 DEF CallsGrow
  <2> QED
    BY <1>2, <1>3, <1>4, <2>1 DEF BriefingLate
<1>8. ASSUME NEW n \in spent' PROVE \E j \in DOMAIN call' : call'[j].number = n /\ call'[j].briefed
  <2>1. CASE n = call[k].number
    BY <1>2, <2>1
  <2>2. CASE n \in spent
    <3>1. PICK j \in DOMAIN call : call[j].number = n /\ call[j].briefed
      BY <2>2 DEF BriefInv
    <3>2. call[j].at = "over"
      BY <3>1 DEF BriefInv, BriefingLate
    <3> QED
      BY <1>1, <1>2, <3>1, <3>2
  <2> QED
    BY <1>1, <2>1, <2>2
<1> QED
  BY <1>2, <1>5, <1>6, <1>7, <1>8

(* remember_preference briefs nobody; it may make a scope.                 *)
LEMMA RememberBrief ==
  ASSUME BriefInv, NEW k \in DOMAIN call, ReadCurrent(k) \/ Insert(k)
  PROVE  HeardIsSpent' /\ (\A j \in DOMAIN call' : BriefingLate(j)')
         /\ \A n \in spent' : \E j \in DOMAIN call' : call'[j].number = n /\ call'[j].briefed
<1>1. /\ UNCHANGED <<spent, heard>> /\ call[k].at \in {"remember", "insert"} /\ Shaped
      /\ scope' = scope \/ \E n \in 1..(made + 1) : ForCall(call[k].key, call[k].who, n)
  BY DEF ReadCurrent, Insert, BriefInv, TypeInv
<1>2. PICK to \in {"insert", "over"} : Goes(k, to)
  BY DEF ReadCurrent, Insert
<1>3. /\ CallsGrow /\ DOMAIN call' = DOMAIN call /\ \A j \in DOMAIN call \ {k} : call'[j] = call[j]
      /\ call'[k].at = to /\ call'[k].number = call[k].number
      /\ call'[k].briefed = call[k].briefed /\ call'[k].late = call[k].late
  BY <1>1, <1>2, GoesLate
<1>4. HeardIsSpent'
  <2>1. CASE scope' = scope
    BY <1>1, <1>3, <2>1, AnotherStays DEF BriefInv, HeardIsSpent
  <2>2. ASSUME NEW n, ForCall(call[k].key, call[k].who, n) PROVE HeardIsSpent'
    BY <1>1, <1>3, <2>2, ForCallHeard
  <2> QED
    BY <1>1, <2>1, <2>2
<1>5. ASSUME NEW j \in DOMAIN call \ {k} PROVE BriefingLate(j)'
  BY <1>1, <1>3, OthersLate
<1>6. BriefingLate(k)'
  <2>1. BriefingLate(k)
    BY DEF BriefInv
  <2>2. call'[k].key = call[k].key /\ call'[k].who = call[k].who
    BY <1>3 DEF CallsGrow
  <2> QED
    BY <1>1, <1>3, <2>1, <2>2 DEF BriefingLate
<1>7. \A j \in DOMAIN call : call'[j].number = call[j].number /\ call'[j].briefed = call[j].briefed
  BY <1>3
<1> QED
  BY <1>1, <1>3, <1>4, <1>5, <1>6, <1>7, SpentStays

(* Every step keeps the briefings in order.                                *)
LEMMA StepBrief == BriefInv /\ [Next]_vars => BriefInv'
<1> SUFFICES ASSUME BriefInv, [Next]_vars PROVE BriefInv'
  OBVIOUS
<1>0. TypeInv'
  BY StepType DEF BriefInv
<1> DEFINE Goal == HeardIsSpent' /\ (\A k \in DOMAIN call' : BriefingLate(k)')
                   /\ \A n \in spent' : \E k \in DOMAIN call' : call'[k].number = n /\ call'[k].briefed
<1> SUFFICES Goal
  BY <1>0 DEF BriefInv
<1> HIDE DEF Goal
<1>1. CASE UNCHANGED vars \/ Starting
  <2>1. UNCHANGED <<scope, spent, call, heard>>
    BY <1>1 DEF vars, Starting, ReadUnowned, Adopt, Serve
  <2> QED
    BY <2>1, StartBrief DEF Goal
<1>2. CASE Restart
  BY <1>2, RestartBrief DEF Goal
<1>3. ASSUME NEW k \in 1..MaxCalls, NEW c, NEW cred, NEW tool \in {"briefing", "remember"}, NEW rule,
             Request(k, c, cred, tool, rule)
      PROVE  Goal
  <2>1. DOMAIN call = 1..(k - 1)
    BY <1>3 DEF Request
  <2>2. k \notin DOMAIN call
    BY <2>1
  <2> QED
    BY <1>3, <2>2, RequestBrief DEF Goal
<1>4. ASSUME NEW c, Drop(c) PROVE Goal
  BY <1>4, DropBrief DEF Goal
<1>5. ASSUME NEW k \in DOMAIN call,
             CheckPending(k) \/ Inventory(k) \/ Brief(k) \/ ReadCurrent(k) \/ Insert(k)
      PROVE  Goal
  BY <1>5, CheckBrief, InventoryBrief, BriefBrief, RememberBrief DEF Goal
<1> QED
  BY <1>1, <1>2, <1>3, <1>4, <1>5 DEF Next

-----------------------------------------------------------------------------
(* Theorems.                                                               *)

(* Every scope, call and row has a key and an owner that there are: only   *)
(* a row from before there were owners has none (scopes.py, identity.py,   *)
(* migrate.py), for any connections, tokens and settings.                  *)
THEOREM TypesHold == Spec => []TypeOK
<1>1. TypeInv => TypeOK
  BY DEF TypeInv
<1> QED
  BY <1>1, InitType, StepType, PTL DEF Spec

(* The state of a session is never that of another connection, nor of      *)
(* another tenant on the same connection (ScopeRegistry.for_call): a       *)
(* number is given to one key and one tenant, for any number of calls,     *)
(* tenants, dropped connections and restarts.                              *)
THEOREM ScopesStaySeparate == Spec => []ScopesAreSeparate
<1>1. ScopeInv => ScopesAreSeparate
  BY DEF ScopeInv
<1> QED
  BY <1>1, InitScope, StepScope, PTL DEF Spec

(* A briefing shows a tenant the rules it gave and those of the global     *)
(* tier, and to the deployment also those of the rows from before there    *)
(* were owners (briefing.py, memory_store.scope_clause), for any settings  *)
(* and any number of calls and restarts.                                   *)
THEOREM RulesStayOwn == Spec => []RulesAreOwn
<1>1. RowsInv => RulesAreOwn
  BY DEF RowsInv
<1> QED
  BY <1>1, InitRows, StepRows, PTL DEF Spec

(* A rule that was answered as recorded is its tenant's to read for ever   *)
(* (memory_write.remember_preference, migrate.backfill_principals).        *)
THEOREM RecordedStaysKept == Spec => []RecordedIsKept
<1>1. RowsInv => RecordedIsKept
  BY DEF RowsInv
<1> QED
  BY <1>1, InitRows, StepRows, PTL DEF Spec

(* The briefing of a session is shown once: a call that comes after it is  *)
(* not briefed again, unless another tenant used the connection since; and *)
(* only a briefing that was given uses a session's up (briefing.py,        *)
(* scopes.py), for any connections, tenants, restarts and failures.        *)
THEOREM BriefedAtMostOnce == Spec => []BriefedOnce
<1>1. BriefInv => BriefedOnce
  BY DEF BriefInv, BriefingLate, Another, BriefedOnce
<1> QED
  BY <1>1, InitBrief, StepBrief, PTL DEF Spec
=============================================================================
