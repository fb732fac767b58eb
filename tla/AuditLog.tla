------------------------------ MODULE AuditLog ------------------------------
(***************************************************************************)
(* The submission log of audit_log.py: what the gateway remembers of each  *)
(* query, by clientContextID, for a bounded time.  The log is a dictionary *)
(* in memory; expired entries are dropped lazily, by the next access.      *)
(* Every method runs without an await, so each is one step of its caller.  *)
(***************************************************************************)
EXTENDS Integers

CONSTANTS
  Ids,       \* clientContextIDs
  Handles,   \* status and result handles the cluster hands out
  None,      \* Python's None
  TTL        \* audit_log_ttl_s

ASSUME LogAssumption ==
  /\ TTL \in Nat \ {0}
  /\ None \notin Handles \cup Nat
  /\ None \notin [at : Nat, handle : Handles \cup {None}, result : Handles \cup {None}]

VARIABLES
  now,       \* the log's clock
  entries    \* entries[i]: the stored AuditEntry of i, or None

(* The part of an AuditEntry that decides anything: when the query was     *)
(* submitted, its status handle and its result handle.                     *)
Entry == [at : Nat, handle : Handles \cup {None}, result : Handles \cup {None}]

NewEntry(h) == [at |-> now, handle |-> h, result |-> None]

(* Mutant of WithResult: the result is stamped when it arrives.            *)
WithResultRestamped(e, h) == [e EXCEPT !.at = now, !.result = h]

(* with_result_handle: a copy, stamped when the original was.              *)
WithResult(e, h) == [e EXCEPT !.result = h]

Expired(e) == now - e.at >= TTL

(* get: an expired entry is as good as none, and is dropped on the way.    *)
Found(i) == entries[i] # None /\ ~Expired(entries[i])

AfterGet(i) == IF Found(i) THEN entries ELSE [entries EXCEPT ![i] = None]

(* _prune, which record, recent and __len__ run first.                     *)
Pruned == [i \in Ids |-> IF Found(i) THEN entries[i] ELSE None]

(* record: store, replacing what was there.                                *)
AfterRecord(i, e) == [Pruned EXCEPT ![i] = e]

(* forget.                                                                 *)
AfterForget(i) == [entries EXCEPT ![i] = None]
=============================================================================
