------------------------------- MODULE SetClient -------------------------------
(***************************************************************************)
(* What the data structures of ds/ have in common: threads that call       *)
(* contains, insert and erase, each call an operation the reclaimer knows  *)
(* of from startOp to endOp (getGuard and the guard's destructor), and     *)
(* nodes that are allocated, linked, unlinked and retired.  The reclaimer  *)
(* is the one GracePeriod describes.                                       *)
(***************************************************************************)
EXTENDS Naturals, FiniteSets, TLC

CONSTANTS
    Tid,            \* the threads
    Node,           \* the nodes the allocator has
    MaxKey,         \* BOUND: keys are 1 .. MaxKey
    NULL,
    NONE

ASSUME SetClientAssumption == MaxKey \in Nat \ {0} /\ NULL \notin Node

KEY_MIN == 0
Key == 1 .. MaxKey
KEY_MAX == MaxKey + 1

VARIABLES
    key,            \* the key fields
    status,         \* of each node: free, linked, unlinked or retired
    active,         \* the threads between startOp and endOp
    waiting,        \* per node, the operations running when it was unlinked
    pc,             \* per thread, the step it takes next
    op,             \* per thread, the call that is running, or NONE
    pred, curr,     \* per thread, where its search is: a node and its successor
    answer,         \* per thread, the result once it is decided
    seen            \* per thread, whether its key was present, since the call

nodes == <<key, status, waiting>>
call == <<active, op, answer, seen>>
position == <<pred, curr>>
clientVars == <<key, status, active, waiting, pc, op, pred, curr, answer, seen>>

Operation == [kind : {"contains", "insert", "erase"}, key : Key]

ClientTypeOK ==
    /\ key \in [Node -> KEY_MIN .. KEY_MAX]
    /\ status \in [Node -> {"free", "linked", "unlinked", "retired"}]
    /\ active \subseteq Tid
    /\ waiting \in [Node -> SUBSET active]
    /\ op \in [Tid -> Operation \union {NONE}]
    /\ answer \in [Tid -> BOOLEAN \union {NONE}]
    /\ seen \in [Tid -> SUBSET BOOLEAN]

ClientInit ==
    /\ key = [n \in Node |-> KEY_MIN]
    /\ status = [n \in Node |-> "free"]
    /\ active = {}
    /\ waiting = [n \in Node |-> {}]
    /\ pc = [t \in Tid |-> "idle"]
    /\ op = [t \in Tid |-> NONE]
    /\ pred = [t \in Tid |-> NULL]
    /\ curr = [t \in Tid |-> NULL]
    /\ answer = [t \in Tid |-> NONE]
    /\ seen = [t \in Tid |-> {}]

LinkedNodes == {n \in Node : status[n] = "linked"}

goto(t, from, to) == pc[t] = from /\ pc' = [pc EXCEPT ![t] = to]

is(t, kind) == op[t] # NONE /\ op[t].kind = kind

(* The result of the call is settled. *)
decide(t, result) == answer' = [answer EXCEPT ![t] = result]

(* The operations on k that run now see k come or go. *)
notice(k, present) ==
    seen' = [t \in Tid |->
                IF op[t] # NONE /\ op[t].key = k THEN seen[t] \union {present} ELSE seen[t]]

(* A call that changes the set does so in this step. *)
takeEffect(t, present) == decide(t, TRUE) /\ notice(op[t].key, present)

(* new_node and the store that links the nodes: they are private until     *)
(* then, and deallocated unshared if it comes to nothing.                  *)
link(keys) ==
    /\ \A n \in DOMAIN keys : status[n] = "free"
    /\ status' = [n \in Node |-> IF n \in DOMAIN keys THEN "linked" ELSE status[n]]
    /\ key' = [n \in Node |-> IF n \in DOMAIN keys THEN keys[n] ELSE key[n]]
    /\ UNCHANGED waiting

(* Nodes are taken out; they must outlive the operations running now. *)
unlink(S) ==
    /\ status' = [n \in Node |-> IF n \in S THEN "unlinked" ELSE status[n]]
    /\ waiting' = [n \in Node |-> IF n \in S THEN active ELSE waiting[n]]
    /\ UNCHANGED key

retireNode(n) ==
    /\ status' = [status EXCEPT ![n] = "retired"]
    /\ UNCHANGED <<key, waiting>>

-------------------------------------------------------------------------------
(* There is memory for every insert that is running, each in need of so    *)
(* many nodes (BOUND: the program has memory to spare).                    *)
memoryFor(need) ==
    LET inserts == {t \in Tid : is(t, "insert") /\ answer[t] = NONE} IN
    Cardinality({n \in Node : status[n] = "free"}) >= need * (Cardinality(inserts) + 1)

startOp(t, first, keys, need) ==
    /\ goto(t, "idle", first)
    /\ \E o \in Operation :
          /\ o.kind = "insert" => memoryFor(need)
          /\ op' = [op EXCEPT ![t] = o]
          /\ seen' = [seen EXCEPT ![t] = {o.key \in keys}]
    /\ active' = active \union {t}
    /\ UNCHANGED <<nodes, position, answer>>

endOp(t) ==
    /\ goto(t, "end", "idle")
    /\ active' = active \ {t}
    /\ waiting' = [n \in Node |-> waiting[n] \ {t}]
    /\ op' = [op EXCEPT ![t] = NONE]
    /\ answer' = [answer EXCEPT ![t] = NONE]
    /\ seen' = [seen EXCEPT ![t] = {}]
    /\ pred' = [pred EXCEPT ![t] = NULL]
    /\ curr' = [curr EXCEPT ![t] = NULL]
    /\ UNCHANGED <<key, status>>

(* The reclaimer; the contents of a freed node mean nothing any more. *)
free(n) ==
    /\ status[n] = "retired" /\ waiting[n] = {}
    /\ status' = [status EXCEPT ![n] = "free"]
    /\ key' = [key EXCEPT ![n] = KEY_MIN]
    /\ UNCHANGED <<waiting, call, pc, position>>
=============================================================================
