--------------------------- MODULE KvTransaction ---------------------------
(***************************************************************************)
(* What the write-coalescing layer of the store promises its callers,      *)
(* without a buffer: a durable map, the map its callers read, and at most  *)
(* one open batch.  Outside a batch the two maps are the same.  A batch is *)
(* isolated (writes do not reach the durable map before commit), abortable *)
(* (abort and power loss bring the readers back to the durable map) and    *)
(* complete: a commit takes no new writes, and each write it took over is  *)
(* made durable or counted as failed before it answers, so the answer Ok   *)
(* means that all of them are durable.  It is NOT atomic: a commit         *)
(* publishes address by address, and power may be lost in between.         *)
(***************************************************************************)
EXTENDS PddbBackend

VARIABLES
    durable,    \* what is on flash
    seen,       \* what a caller reads
    open,       \* a batch is open
    closing,    \* its commit is under way
    damaged,    \* some write of the commit under way failed
    answer      \* what the last commit answered: "none", "ok" or "err"

tvars == <<durable, seen, open, closing, damaged, answer>>

TInit ==
    /\ durable \in Store
    /\ seen = durable
    /\ open = FALSE
    /\ closing = FALSE
    /\ damaged = FALSE
    /\ answer = "none"

(* A batch opens over the current durable map. *)
Begin ==
    /\ ~open
    /\ open' = TRUE
    /\ answer' = "none"
    /\ UNCHANGED <<durable, seen, closing, damaged>>

(* Outside a batch a write is durable at once; inside it only readers see  *)
(* it.  No write is taken while a commit is under way.                     *)
Write(a, c) ==
    /\ ~closing
    /\ seen' = [seen EXCEPT ![a] = c]
    /\ durable' = IF open THEN durable ELSE seen'
    /\ UNCHANGED <<open, closing, damaged, answer>>

(* A write outside a batch that is reported as failed. *)
WriteFails(a, c) ==
    /\ ~open
    /\ durable' \in put_failed(durable, a, c)
    /\ seen' = durable'
    /\ UNCHANGED <<open, closing, damaged, answer>>

(* Dropping a dictionary is durable even inside a batch, and forgets what  *)
(* the batch wrote there; on failure only the addresses S are gone.        *)
DropDict(d, S) ==
    /\ ~closing
    /\ S \subseteq InDict(d)
    /\ durable' = delete_dict_applied(durable, S)
    /\ seen' = [a \in Address |-> IF a \in InDict(d) THEN durable'[a] ELSE seen[a]]
    /\ UNCHANGED <<open, closing, damaged, answer>>

(* The commit starts: until it ends, the steps below are all it may do. *)
StartCommit ==
    /\ open
    /\ ~closing
    /\ closing' = TRUE
    /\ damaged' = FALSE
    /\ answer' = "none"
    /\ UNCHANGED <<durable, seen, open>>

(* Commit makes some addresses durable exactly as the callers saw them. *)
Publish(S) ==
    /\ closing
    /\ durable' = [a \in Address |-> IF a \in S THEN seen[a] ELSE durable[a]]
    /\ UNCHANGED <<seen, open, closing, damaged, answer>>

(* A write of the commit fails; readers see what is left on flash. *)
Damage(a) ==
    /\ closing
    /\ durable' \in put_failed(durable, a, seen[a])
    /\ seen' = [seen EXCEPT ![a] = durable'[a]]
    /\ damaged' = TRUE
    /\ UNCHANGED <<open, closing, answer>>

(* The commit answers once nothing is left that is not durable. *)
Close ==
    /\ closing
    /\ durable = seen
    /\ open' = FALSE
    /\ closing' = FALSE
    /\ damaged' = FALSE
    /\ answer' = IF damaged THEN "err" ELSE "ok"
    /\ UNCHANGED <<durable, seen>>

(* Abort and power loss: readers fall back to the durable map, and no      *)
(* commit has answered.                                                    *)
Discard ==
    /\ seen' = durable
    /\ open' = FALSE
    /\ closing' = FALSE
    /\ damaged' = FALSE
    /\ answer' = "none"
    /\ UNCHANGED durable

TNext ==
    \/ Begin
    \/ \E a \in Address : \E c \in Values \cup {NoValue} : Write(a, c) \/ WriteFails(a, c)
    \/ \E a \in Address : Damage(a)
    \/ \E d \in Dicts : \E S \in SUBSET Address : DropDict(d, S)
    \/ StartCommit
    \/ \E S \in SUBSET Address : Publish(S)
    \/ Close
    \/ Discard

TSpec == TInit /\ [][TNext]_tvars
=============================================================================
