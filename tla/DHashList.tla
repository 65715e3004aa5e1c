----------------------------- MODULE DHashList ------------------------------
(***************************************************************************)
(* DHash with its lists as the code has them: nodes and pointers, written  *)
(* one pointer at a time by the thread that holds the bucket's mutex, and  *)
(* read one pointer at a time by checkRegistration, which takes no mutex.  *)
(*                                                                         *)
(* A node is named by its bucket and its entry.  The two red zones of a    *)
(* node never change, so only first, last and the nodes' next are state;   *)
(* the counter is DHash's, since the code changes it in the last statement *)
(* of a list operation.  A list operation chooses its writes (Begin), does *)
(* them in the order of the source (Put), and ends with DHash's own step   *)
(* (End).  No barrier keeps that order for a thread without the mutex: a   *)
(* compiler may write in another one.                                      *)
(***************************************************************************)
EXTENDS DHash

CONSTANTS
  Checker,  \* the threads of the program that check an access
  Access    \* the accesses they check: [mem, size]

VARIABLES
  first,    \* hashTable[].first
  last,     \* hashTable[].last
  next,     \* the next of every node: of the entry in a bucket
  listOp,   \* the list operation each thread is in
  walk      \* the checkRegistration each checker is in

lists == <<first, last, next, listOp>>
listVars == <<vars, lists, walk>>

Buckets == 0 .. (HASHSZ - 1)

\* A node's address, by its entry; NoEntry is NULL.
Pointer == Block \cup {NoEntry}

NoOp   == [begun |-> FALSE, writes |-> <<>>, append |-> TRUE]
NoWalk == [at |-> "idle", mem |-> 0, size |-> 0, cur |-> NoEntry,
           answer |-> 0, calm |-> TRUE, earliest |-> 0]

ListInit ==
  /\ Init
  /\ first = [k \in Buckets |-> NoEntry]
  /\ last = [k \in Buckets |-> NoEntry]
  /\ next = [k \in Buckets |-> [e \in Block |-> NoEntry]]
  /\ listOp = [t \in Thread |-> NoOp]
  /\ walk = [c \in Checker |-> NoWalk]

\* The nodes of a bucket, as a loop from first along next meets them.
Chain(k) ==
  LET From[n \in Nat, node \in Pointer] ==
        IF n = 0 \/ node = NoEntry THEN <<>> ELSE <<node>> \o From[n - 1, next[k][node]]
  IN  From[Cardinality(Block), first[k]]

\* The writes of list operations ----------------------------------------------

SetFirst(to)    == [field |-> "first", of |-> NoEntry, to |-> to]
SetLast(to)     == [field |-> "last",  of |-> NoEntry, to |-> to]
SetNext(of, to) == [field |-> "next",  of |-> of,      to |-> to]

\* addAddrToList, which reads the list under the mutex.  The node is new: its next is NULL.
AddWrites(k, toAdd) ==
  LET chain == Chain(k)
      stop == FirstOf({i \in 1 .. Len(chain) : SameRedZone(chain[i], toAdd)
                                                \/ toAdd.R < chain[i].L})
  IN  CASE table[k].counter = 0 /\ first[k] = NoEntry
             -> <<SetFirst(toAdd), SetLast(toAdd)>>
        [] table[k].counter # 0 /\ last[k] = NoEntry -> <<>>    \* last->startAddrR: segv
        [] last[k] # NoEntry /\ last[k].R < toAdd.L
             -> <<SetNext(last[k], toAdd), SetLast(toAdd)>>
        [] OTHER ->
             IF stop = 0 \/ SameRedZone(chain[stop], toAdd) THEN <<>>
             ELSE IF stop = 1 THEN <<SetFirst(toAdd), SetNext(toAdd, chain[1])>>
             ELSE <<SetNext(chain[stop - 1], toAdd), SetNext(toAdd, chain[stop])>>

\* Slip: last not moved back when the last node is unlinked.
SlipRemoveWrites(k, toRemove) ==
  LET chain == Chain(k)
      at == Find(chain, toRemove)
  IN  IF table[k].counter = 0 \/ at = 0 THEN <<>>
      ELSE IF at = 1 THEN <<SetFirst(next[k][chain[at]])>>
      ELSE <<SetNext(chain[at - 1], next[k][chain[at]])>>

\* removeAddrFromList: the node keeps its next, and is freed after the call.
RemoveWrites(k, toRemove) ==
  LET chain == Chain(k)
      at == Find(chain, toRemove)
  IN  IF table[k].counter = 0 \/ at = 0 THEN <<>>
      ELSE IF next[k][chain[at]] = NoEntry
           THEN IF at = 1 THEN <<SetFirst(NoEntry), SetLast(NoEntry)>>
                ELSE <<SetNext(chain[at - 1], NoEntry), SetLast(chain[at - 1])>>
           ELSE IF at = 1 THEN <<SetFirst(next[k][chain[at]])>>
                ELSE <<SetNext(chain[at - 1], next[k][chain[at]])>>

\* The places of DHash where a list operation runs, and its bucket.
Adding   == {"reg_add1", "reg_add2"}
Deleting == {"rem_list1", "rem_list2"}

OpBucket(t) ==
  getRZAddrBucket(IF pc[t] \in {"reg_add1", "rem_list1"} THEN blk[t].L ELSE right[t])

Writes(t) ==
  IF pc[t] \in Adding THEN AddWrites(OpBucket(t), blk[t])
  ELSE RemoveWrites(OpBucket(t), [L |-> blk[t].L, R |-> right[t]])

\* The node goes to the end of the list, or nowhere: no node is unlinked, and none
\* stands in front of others before its own next is written.
Appends(t, writes) ==
  pc[t] \in Adding /\ (writes = <<>> \/ SetLast(blk[t]) \in ToSet(writes))

\* The bucket whose list a check reads.
CheckBucket(c) == getRZAddrBucket(walk[c].mem)

\* The list operations of the threads -----------------------------------------

\* The writes are chosen.  Unless they put the node at the end, the checks of the bucket
\* are no longer calm.
Begin(t) ==
  /\ crashed = "no" /\ pc[t] \in Adding \cup Deleting /\ ~listOp[t].begun
  /\ LET writes == Writes(t)
         append == Appends(t, writes)
     IN  /\ listOp' = [listOp EXCEPT ![t] =
                         [begun |-> TRUE, writes |-> writes, append |-> append]]
         /\ walk' = [c \in Checker |-> [walk[c] EXCEPT
                       !.calm = @ /\ (append \/ OpBucket(t) # CheckBucket(c))]]
  /\ UNCHANGED <<vars, first, last, next>>

\* The next of them.
Put(t) ==
  LET k == OpBucket(t)
      w == Head(listOp[t].writes)
  IN  /\ crashed = "no" /\ listOp[t].writes # <<>>
      /\ listOp' = [listOp EXCEPT ![t].writes = Tail(@)]
      /\ first' = IF w.field = "first" THEN [first EXCEPT ![k] = w.to] ELSE first
      /\ last' = IF w.field = "last" THEN [last EXCEPT ![k] = w.to] ELSE last
      /\ next' = IF w.field = "next" THEN [next EXCEPT ![k][w.of] = w.to] ELSE next
      /\ UNCHANGED <<vars, walk>>

\* counter++ or counter--, and what the caller does next.  The removed node is freed
\* and may hold anything: here, NULL.
End(t) ==
  /\ listOp[t].begun /\ listOp[t].writes = <<>>
  /\ RegAdd1(t) \/ RegAdd2(t) \/ RemList1(t) \/ RemList2(t)
  /\ next' = [next EXCEPT ![OpBucket(t)] = [e \in Block |->
                IF e \in ToSet(table[OpBucket(t)].list) \ ToSet(table'[OpBucket(t)].list)
                THEN NoEntry ELSE @[e]]]
  /\ listOp' = [listOp EXCEPT ![t] = NoOp]
  /\ UNCHANGED <<first, last, walk>>

\* A step of DHash that is no list operation.
Other(t, Step) == pc[t] \notin Adding \cup Deleting /\ Step /\ UNCHANGED <<lists, walk>>

\* checkRegistration ------------------------------------------------------------

Stands(c, here) == crashed = "no" /\ walk[c].at = here

Step(c, there, cur) == walk' = [walk EXCEPT ![c].at = there, ![c].cur = cur]

Answer(c, answer) ==
  walk' = [walk EXCEPT ![c].at = "answered", ![c].cur = NoEntry, ![c].answer = answer]

\* A NULL is followed.
Segv == crashed' = "segv" /\ UNCHANGED <<init, mutex, table, heap, live, fails, pc, blk, right, undo>>

StartCheck(c) ==
  /\ Stands(c, "idle") \/ Stands(c, "answered")
  /\ init = 1
  /\ \E a \in Access :
       LET empty == table[getRZAddrBucket(a.mem)].counter = 0
       IN  walk' = [walk EXCEPT ![c] =
             [NoWalk EXCEPT !.at = IF empty THEN "answered" ELSE "first",
                            !.mem = a.mem, !.size = a.size,
                            !.calm = \A t \in Thread :
                              listOp[t].append \/ OpBucket(t) # getRZAddrBucket(a.mem),
                            !.earliest = checkRegistration(table, a.mem, a.size)]]
  /\ UNCHANGED <<vars, lists>>

ReadFirst(c) ==
  LET node == first[CheckBucket(c)]
  IN  /\ Stands(c, "first")
      /\ IF node = NoEntry THEN Segv /\ walk' = walk
         ELSE /\ IF node.L > walk[c].mem THEN Answer(c, 0) ELSE Step(c, "last", NoEntry)
              /\ UNCHANGED vars
      /\ UNCHANGED lists

\* Slip: the comparison with the last entry without the red zone's size.
SlipAfterLast(node, mem) == node.R < mem

AfterLast(node, mem) == node.R + RZ < mem

ReadLast(c) ==
  LET node == last[CheckBucket(c)]
  IN  /\ Stands(c, "last")
      /\ IF node = NoEntry THEN Segv /\ walk' = walk
         ELSE /\ IF AfterLast(node, walk[c].mem) THEN Answer(c, 0) ELSE Step(c, "start", NoEntry)
              /\ UNCHANGED vars
      /\ UNCHANGED lists

StartLoop(c) ==
  /\ Stands(c, "start")
  /\ Step(c, "loop", first[CheckBucket(c)])
  /\ UNCHANGED <<vars, lists>>

\* The first or the last byte (addedMem) of the access is in a red zone of the node.
Touches(c, node) ==
  LET addedMem == IF walk[c].size > 1 THEN walk[c].mem + walk[c].size - 1 ELSE walk[c].mem
  IN  \E a \in {walk[c].mem, addedMem} : InZone(a, node.L) \/ InZone(a, node.R)

\* One round of the loop.  The node may have been unlinked meanwhile, and freed: its zones
\* are read as they were and its next is NULL, where the code may read anything.
Visit(c) ==
  LET node == walk[c].cur
  IN  /\ Stands(c, "loop")
      /\ IF node = NoEntry THEN Answer(c, 0)
         ELSE IF Touches(c, node) THEN Answer(c, 1)
         ELSE Step(c, "loop", next[CheckBucket(c)][node])
      /\ UNCHANGED <<vars, lists>>

Check(c) == StartCheck(c) \/ ReadFirst(c) \/ ReadLast(c) \/ StartLoop(c) \/ Visit(c)

-----------------------------------------------------------------------------

\* What a thread inside a call does.
Continue(t) == Begin(t) \/ Put(t) \/ End(t) \/ Other(t, Proceed(t))

ListNext ==
  \/ \E t \in Thread : Other(t, Call(t)) \/ Continue(t)
  \/ \E c \in Checker : Check(c)

\* The operating system keeps running every thread that can run.
ListSpec == ListInit /\ [][ListNext]_listVars /\ \A t \in Thread : WF_listVars(Continue(t))

-----------------------------------------------------------------------------
(***************************************************************************)
(* Properties                                                              *)
(***************************************************************************)

\* The pointers of a bucket are the list of RedZoneTable: what first and next lead to,
\* in this order, and last at its end.
IsList(k) ==
  LET list == table[k].list
  IN  /\ Chain(k) = list
      /\ last[k] = IF list = <<>> THEN NoEntry ELSE Last(list)

\* addAddrToList and removeAddrFromList do with their pointers what RedZoneTable says of
\* them in one step: whenever no thread is inside a list operation on a bucket, its
\* pointers are its list, in whatever order blocks came and went.
ListsComputeTable ==
  \A k \in Buckets :
    (\A t \in Thread : listOp[t].begun => OpBucket(t) # k) => IsList(k)

\* A check takes no mutex, and needs none while the other threads only put blocks at the end
\* of the list it reads ("addresses are often allocated increasingly", dhash.c:631): it
\* reports what the table said when it started, and nothing but red zones in the list.
CalmChecksAnswer ==
  \A c \in Checker :
    walk[c].at = "answered" /\ walk[c].calm =>
      /\ walk[c].earliest <= walk[c].answer
      /\ walk[c].answer = 1 => \E node \in ToSet(Chain(CheckBucket(c))) : Touches(c, node)

\* With the other list operations it does need one.  A block in use, whose red zone the
\* table lists all through the check, is missed when a block is put in front of it.
ZonesSeen ==
  \A c \in Checker :
    walk[c].at = "answered" /\ walk[c].earliest = 1
    /\ checkRegistration(table, walk[c].mem, walk[c].size) = 1
      => walk[c].answer = 1

=============================================================================
