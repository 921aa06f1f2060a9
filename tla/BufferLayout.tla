---------------------------- MODULE BufferLayout ----------------------------
(***************************************************************************)
(* allocate_buffer and deallocate_buffer of dccs_rdma.h for the parameters  *)
(* parse_args has accepted: count buffers carved out of mr_count blocks of  *)
(* memory, each allocated and registered, deregistered and freed together.  *)
(* That either fails is a matter of RdmaSession.                            *)
(***************************************************************************)
EXTENDS ParseArgs, FiniteSets

VARIABLES pc,           \* "allocate", "deallocate", "done"
          n,            \* the loop index of both functions, from 0
          heap,         \* the blocks allocated and registered, not yet freed
          brk,          \* the first address never allocated
          buf_base,     \* the current block
          requests      \* requests[n].buf and the base of its region

vars == <<parseVars, pc, n, heap, brk, buf_base, requests>>

count_per_mr == accepted.count \div accepted.mr_count

buffer_length == (count_per_mr * accepted.length) % SIZE

\* One buffer at this address, with the block it was carved out of.
Request(a, base) == [buf |-> a, mr |-> base]

\* Mutant: every buffer is the first of its block (perftest's latency test).
OffsetZero == 0

offset == n % count_per_mr

\* Blocks are apart from each other.
NewBlock == [base |-> brk, length |-> buffer_length]

AllocateNext ==
    /\ status = "accepted" /\ pc = "allocate" /\ n < accepted.count
    /\ \/ /\ n % count_per_mr = 0
          /\ heap' = heap \union {NewBlock}
          /\ brk' = brk + buffer_length + 1
          /\ buf_base' = brk
       \/ n % count_per_mr # 0 /\ UNCHANGED <<heap, brk, buf_base>>
    /\ requests' = [i \in 0..n |->
          IF i < n THEN requests[i]
          ELSE Request(buf_base' + offset * accepted.length, buf_base')]
    /\ n' = n + 1
    /\ UNCHANGED <<parseVars, pc>>

AllocateDone ==
    /\ status = "accepted" /\ pc = "allocate" /\ n = accepted.count
    /\ pc' = "deallocate" /\ n' = 0
    /\ UNCHANGED <<parseVars, heap, brk, buf_base, requests>>

\* Mutant: every request's buffer is freed.
FirstOfBlockAlways == TRUE

FirstOfBlock == n % count_per_mr = 0

DeallocateEnd == n = accepted.count

DeallocateNext ==
    /\ pc = "deallocate" /\ ~DeallocateEnd
    /\ heap' = IF FirstOfBlock
               THEN {b \in heap : b.base # requests[n].buf} ELSE heap
    /\ n' = n + 1
    /\ UNCHANGED <<parseVars, pc, brk, buf_base, requests>>

DeallocateDone ==
    /\ pc = "deallocate" /\ DeallocateEnd
    /\ pc' = "done"
    /\ UNCHANGED <<parseVars, n, heap, brk, buf_base, requests>>

Init == /\ ParseInit
        /\ pc = "allocate" /\ n = 0 /\ heap = {} /\ brk = 1
        /\ buf_base = 0 /\ requests = [i \in {} |-> Request(0, 0)]

Next == \/ ParseNext /\ UNCHANGED <<pc, n, heap, brk, buf_base, requests>>
        \/ AllocateNext \/ AllocateDone \/ DeallocateNext \/ DeallocateDone

Spec == Init /\ [][Next]_vars

-----------------------------------------------------------------------------
Allocated == DOMAIN requests

Bytes(i) == requests[i].buf..(requests[i].buf + accepted.length - 1)

\* The sizes of the blocks do not wrap around.
Fits == status = "accepted" /\ count_per_mr * accepted.length < SIZE

\* Every buffer lies in the memory region its request names, which is what the
\* local and the remote key give access to, and shares no byte with another
\* one: one request's traffic never lands in another one's buffer, whatever the
\* number of regions.
OwnBytes ==
    Fits /\ pc = "allocate" => \A i \in Allocated :
        /\ \E b \in heap : /\ b.base = requests[i].mr
                           /\ Bytes(i) \subseteq b.base..(b.base + b.length - 1)
        /\ \A j \in Allocated \ {i} : Bytes(i) \intersect Bytes(j) = {}

\* Exactly mr_count regions are registered, none of them empty, so that the
\* modulus of both functions is not zero: count is a multiple of mr_count after
\* the warm-up has been added, which is what parse_args validates.
RegionsAsAsked ==
    status = "accepted" =>
        /\ count_per_mr > 0
        /\ pc = "allocate" /\ n = accepted.count
           => Cardinality(heap) = accepted.mr_count

\* deallocate_buffer finds the first buffer of every block again by the modulus
\* that allocate_buffer used: it only frees addresses that malloc_random
\* returned and that have not been freed, and in the end all of them.
FreedOnce ==
    /\ pc = "deallocate" /\ ~DeallocateEnd /\ FirstOfBlock
       => \E b \in heap : b.base = requests[n].buf
    /\ pc = "done" => heap = {}
=============================================================================
