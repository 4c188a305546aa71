-------------------------------- MODULE MCSets --------------------------------
(* Three data structures, on one instance each: which one it is is chosen  *)
(* when the program is built.  LazyList is the one this module extends;    *)
(* each has variables of its own, and those it does not have are NONE.     *)
EXTENDS LazyList

CONSTANTS
    TreeNode,                       \* the nodes of the tree
    Root, MinLeaf, MaxLeaf,         \* and its sentinels
    MaxVersion

VARIABLES structure, predNext, nxt, cur, child, ppred, predVer, ppredVer, right, pright

(* The lists have three nodes.  The three ways to pair off the four nodes  *)
(* of the tree serve as such: then the permutations of TreeNode permute    *)
(* them, in every way, and TLC needs no more permutations than for the     *)
(* tree.                                                                   *)
ListNode == {{S, TreeNode \ S} : S \in {T \in SUBSET TreeNode : Cardinality(T) = 2}}

Harris == INSTANCE HarrisList
Ticket == INSTANCE TicketTree WITH Node <- TreeNode

harrisOnly == <<predNext, nxt, cur>>
ticketOnly == <<child, ppred, predVer, ppredVer, right, pright>>
MCvars == <<structure, vars, harrisOnly, ticketOnly>>

MCInit ==
    /\ \/ structure = "lazy" /\ Init
       \/ structure = "harris" /\ Harris!Init
       \/ structure = "ticket" /\ Ticket!Init
    /\ structure = "ticket" => next = NONE
    /\ structure # "lazy" => marked = NONE
    /\ structure = "harris" => lock = NONE
    /\ structure # "harris" => predNext = NONE /\ nxt = NONE /\ cur = NONE
    /\ structure # "ticket" =>
          /\ child = NONE /\ ppred = NONE /\ predVer = NONE /\ ppredVer = NONE
          /\ right = NONE /\ pright = NONE

(* BOUND: of two calls that run together one inserts or erases key 1.      *)
boundedCalls ==
    \E t \in Tid : op'[t] = NONE \/ (op'[t].key = 1 /\ op'[t].kind # "contains")

MCNext ==
    /\ UNCHANGED structure
    /\ \/ structure = "lazy" /\ Next /\ UNCHANGED <<harrisOnly, ticketOnly>>
       \/ structure = "harris" /\ Harris!Next /\ UNCHANGED <<marked, lock, ticketOnly>>
       \/ structure = "ticket" /\ Ticket!Next /\ UNCHANGED <<next, marked, harrisOnly>>
    /\ boundedCalls

MCSpec == MCInit /\ [][MCNext]_MCvars

which(lazy, harris, ticket) ==
    CASE structure = "lazy" -> lazy
      [] structure = "harris" -> harris
      [] structure = "ticket" -> ticket

(* Every variable holds what the code of the structure can store in it.    *)
MCTypeOK == which(TypeOK, Harris!TypeOK, Ticket!TypeOK)

(* The structure is what its searches take it to be, a sorted list or a    *)
(* search tree, between any two steps.                                     *)
MCOrdered == which(Ordered, Harris!Ordered, Ticket!Ordered)

(* When no call is running there is no lock, no mark and no unlinked node  *)
(* left over, however the calls got into each other's way.                 *)
MCTidy == which(Tidy, Harris!Tidy, Ticket!Tidy)

(* No pointer of a running call leads to memory that was freed; searches   *)
(* walk through nodes that others have taken out and retired.              *)
MCNoUseAfterFree ==
    LET uses(t) == which(pointers(t), Harris!pointers(t), Ticket!pointers(t)) IN
    \A t \in active, n \in DOMAIN status : n \in uses(t) => status[n] # "free"

(* Each structure is a linearizable set. *)
MCAbstractSet == INSTANCE ConcurrentSet
    WITH Thread <- Tid, set <- which(set, Harris!set, Ticket!set)
MCLinearizable == MCAbstractSet!Spec

(* Each uses the reclaimer as it must: a node is retired once, by one      *)
(* thread, and after it was unlinked.                                      *)
of(S, f, other) == [n \in S |-> IF n \in DOMAIN f THEN f[n] ELSE other]
ListContract == INSTANCE GracePeriod
    WITH Thread <- Tid,
         status <- of(Node, status, "free"), waiting <- of(Node, waiting, {})
TreeContract == INSTANCE GracePeriod
    WITH Thread <- Tid, Node <- TreeNode,
         status <- of(TreeNode, status, "free"), waiting <- of(TreeNode, waiting, {})
MCReclamation == ListContract!Spec /\ TreeContract!Spec

Symmetry == Permutations(Tid) \union Permutations(TreeNode)
=============================================================================
