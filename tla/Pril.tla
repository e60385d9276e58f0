-------------------------------- MODULE Pril --------------------------------
(***************************************************************************)
(* The PRIL (PRIority List) of kernel/nano/nano_misc.c, pointer by         *)
(* pointer.  It carries the send queue of a channel, the waiters of a      *)
(* synchronisation object and the pending signals of a process.            *)
(*                                                                         *)
(* An entry is its address (a natural number; NULL is 0), because          *)
(* pril_update_register sorts by address.  `prev' is the overloaded field  *)
(* of the C union: prio_tail in a HEAD entry, and in any other entry the   *)
(* entry whose `next' field points here.  PRIL_PRIORITY (priority, plus    *)
(* NUM_PRI for a boosted entry) is the single number prio[e].  An entry    *)
(* that leaves the list keeps stale links in C; here they become NULL and  *)
(* its priority 0, so a read before pril_add rewrites them would show.     *)
(***************************************************************************)
EXTENDS Naturals, Sequences, FiniteSets

CONSTANTS Entry,      \* addresses of list entries
          Prio,       \* values of PRIL_PRIORITY
          Updater     \* struct pril_update objects of concurrent DebugChannel calls

ASSUME PrilAssumption == Entry \subseteq Nat \ {0} /\ Prio \subseteq Nat \ {0}

NULL == 0
NoPrio == 0
FREE == 1000000       \* upp->pril of an updater that is not registered
ASSUME FreeAssumption == FREE \notin Entry

VARIABLES
    list,         \* ph->data and the fields of every entry, see ListType
    update_list,  \* registered updaters, in list order
    pril,         \* upp->pril of every updater
    crashed       \* the kernel has dereferenced a NULL pointer

vars == <<list, update_list, pril, crashed>>

Ptr == Entry \cup {NULL}
ListType == [data : Ptr, next : [Entry -> Ptr], prev : [Entry -> Ptr],
             flag : [Entry -> SUBSET {"HEAD", "TAIL", "UPDATER"}],
             prio : [Entry -> Prio \cup {NoPrio}]]
-----------------------------------------------------------------------------
\* The list read from its first entry through the next pointers.  The fuel
\* stops the walk of a list that has become circular.
RECURSIVE WalkFrom(_, _, _)
WalkFrom(l, e, fuel) == IF e = NULL \/ fuel = 0 THEN <<>>
                        ELSE <<e>> \o WalkFrom(l, l.next[e], fuel - 1)
Walk(l) == WalkFrom(l, l.data, Cardinality(Entry) + 1)
OnList(l) == LET w == Walk(l) IN {w[i] : i \in DOMAIN w}

\* *owner: an owner is the list head (NULL stands for &ph->data) or an entry,
\* whose next field it is.
Deref(l, owner) == IF owner = NULL THEN l.data ELSE l.next[owner]
Assign(l, owner, e) == IF owner = NULL THEN [l EXCEPT !.data = e]
                                       ELSE [l EXCEPT !.next[owner] = e]

\* The loop of pril_add and pril_rem: from level head to level head, by way of
\* prio_tail, to the first one that is not above priority n.
RECURSIVE FindLevel(_, _, _)
FindLevelMutant(l, owner, n) ==     \* mutant: a peer counts as lower
    LET head == Deref(l, owner)
    IN  IF head = NULL \/ l.prio[head] < n THEN owner
        ELSE FindLevel(l, l.prev[head], n)
FindLevel(l, owner, n) ==
    LET head == Deref(l, owner)
    IN  IF head = NULL \/ l.prio[head] <= n THEN owner
        ELSE FindLevel(l, l.prev[head], n)
-----------------------------------------------------------------------------
AddToLevel(l, head, new) ==
    LET tail == l.prev[head]
    IN  [l EXCEPT !.prev = [@ EXCEPT ![head] = new, ![new] = tail],
                  !.next = [@ EXCEPT ![new] = l.next[tail], ![tail] = new],
                  !.flag = [@ EXCEPT ![tail] = @ \ {"TAIL"},
                                     ![new] = (@ \ {"HEAD"}) \cup {"TAIL"}]]

NewLevel(l, owner, new) ==
    Assign([l EXCEPT !.next[new] = Deref(l, owner),
                     !.prev[new] = new,
                     !.flag[new] = @ \cup {"HEAD", "TAIL"}], owner, new)

pril_add(l, new) ==
    LET owner == FindLevel(l, NULL, l.prio[new])
        head  == Deref(l, owner)
    IN  IF head # NULL /\ l.prio[head] = l.prio[new]
        THEN AddToLevel(l, head, new)
        ELSE NewLevel(l, owner, new)

RemoveHeadMutant(l, owner, p) ==    \* mutant: prio_tail is not handed over
    LET nxt == l.next[p]
    IN  Assign([l EXCEPT !.flag[nxt] = @ \cup {"HEAD"}], owner, nxt)
RemoveHead(l, owner, p) ==
    LET nxt == l.next[p]
    IN  Assign([l EXCEPT !.prev[nxt] = l.prev[p],
                         !.flag[nxt] = @ \cup {"HEAD"}], owner, nxt)

RemoveTail(l, head, p) ==
    LET t == l.prev[p]
    IN  Assign([l EXCEPT !.prev[head] = t,
                         !.flag[t] = @ \cup {"TAIL"}], t, l.next[p])

\* The list without p; p's own links are forgotten, its FLAG_UPDATER is not.
pril_unlink(l, p) ==
    LET f     == l.flag[p]
        owner == FindLevel(l, NULL, l.prio[p])
        after == IF "TAIL" \notin f /\ "HEAD" \in f THEN RemoveHead(l, owner, p)
                 ELSE IF "TAIL" \in f /\ "HEAD" \notin f
                      THEN RemoveTail(l, Deref(l, owner), p)
                 ELSE IF "TAIL" \in f THEN Assign(l, owner, l.next[p])
                 ELSE Assign([l EXCEPT !.prev[l.next[p]] = l.prev[p]],
                             l.prev[p], l.next[p])
    IN  [after EXCEPT !.next[p] = NULL, !.prev[p] = NULL, !.prio[p] = NoPrio,
                      !.flag[p] = @ \ {"HEAD", "TAIL"}]

\* The updaters that stand on p, when p's FLAG_UPDATER says there are any.
Watching(p) == IF "UPDATER" \in list.flag[p]
               THEN {u \in Updater : u \in {update_list[i] : i \in DOMAIN update_list}
                                     /\ pril[u] = p}
               ELSE {}

\* pril_rem: unlink p, then mark its successor when updaters stood on p.  The
\* mark is written without a test for a NULL successor.
pril_rem(l, p) ==
    LET nxt   == l.next[p]
        after == pril_unlink(l, p)
    IN  IF Watching(p) = {} \/ nxt = NULL THEN after
        ELSE [after EXCEPT !.flag[nxt] = @ \cup {"UPDATER"}]

\* The loop over update_list at the end of pril_rem.
MoveUpdatersMutant(p) ==            \* mutant: updaters are not told
    UNCHANGED <<pril, crashed>>
MoveUpdaters(p) ==
    /\ pril' = [u \in Updater |-> IF u \in Watching(p) THEN list.next[p] ELSE pril[u]]
    /\ crashed' = (Watching(p) # {} /\ list.next[p] = NULL)
-----------------------------------------------------------------------------
Init ==
    /\ list = [data |-> NULL, next |-> [e \in Entry |-> NULL],
               prev |-> [e \in Entry |-> NULL], flag |-> [e \in Entry |-> {}],
               prio |-> [e \in Entry |-> NoPrio]]
    /\ update_list = <<>>
    /\ pril = [u \in Updater |-> FREE]
    /\ crashed = FALSE

\* A thread or pulse of priority p queues e (ker_msg_sendv, pulse_add, ...).
Add(e, p) ==
    /\ e \notin OnList(list)
    /\ list' = pril_add([list EXCEPT !.prio[e] = p], e)
    /\ UNCHANGED <<update_list, pril, crashed>>

\* e is received, replied to or forced ready.
Remove(e) ==
    /\ e \in OnList(list)
    /\ list' = pril_rem(list, e)
    /\ MoveUpdaters(e)
    /\ UNCHANGED update_list

\* adjust_priority on a thread that is queued: out, new priority, in again.
Reposition(e, p) ==
    /\ e \in OnList(list)
    /\ list' = pril_add([pril_rem(list, e) EXCEPT !.prio[e] = p], e)
    /\ MoveUpdaters(e)
    /\ UNCHANGED update_list

\* pril_update_register: u goes before the first updater on an address not
\* below its own.
RegisterAt(ul, u, e) ==
    LET low == Cardinality({i \in DOMAIN ul : \A j \in 1..i : pril[ul[j]] < e})
    IN  SubSeq(ul, 1, low) \o <<u>> \o SubSeq(ul, low + 1, Len(ul))

MarkUpdater(l, e) == IF e = NULL THEN l ELSE [l EXCEPT !.flag[e] = @ \cup {"UPDATER"}]

\* pril_update_unregister: FLAG_UPDATER of e goes unless a neighbour of u in
\* update_list stands on e too.
Position(ul, u) == CHOOSE i \in DOMAIN ul : ul[i] = u
DropAt(ul, i) == SubSeq(ul, 1, i - 1) \o SubSeq(ul, i + 1, Len(ul))

UnmarkUpdater(l, ul, u, e) ==
    LET i == Position(ul, u)
        more_updaters == \E j \in {i - 1, i + 1} \cap DOMAIN ul : pril[ul[j]] = e
    IN  IF e = NULL \/ more_updaters THEN l
        ELSE [l EXCEPT !.flag[e] = @ \ {"UPDATER"}]

\* DC_COUNT_SEND_CONTINUE after the unregistering: u counts from entry e on,
\* either to the end of the list l or until it is preempted after some entry;
\* it then stands on the entry that follows, and may have come to the end.
CountFrom(u, l, ul, e) ==
    \/ /\ list' = l /\ update_list' = ul
       /\ pril' = [pril EXCEPT ![u] = FREE]
    \/ LET w == WalkFrom(l, e, Cardinality(Entry) + 1)
       IN  \E i \in DOMAIN w :
             LET n == l.next[w[i]]
             IN  /\ list' = MarkUpdater(l, n)
                 /\ update_list' = RegisterAt(ul, u, n)
                 /\ pril' = [pril EXCEPT ![u] = n]

\* DebugChannel starts to count the send queue: it registers on the first entry
\* and unregisters again before it counts it.
DebugChannel(u) ==
    LET first == list.data
        ul    == RegisterAt(update_list, u, first)
    IN  /\ pril[u] = FREE
        /\ CountFrom(u, UnmarkUpdater(MarkUpdater(list, first), ul, u, first), update_list, first)
        /\ UNCHANGED crashed

\* It resumes where it stands.
DebugChannelContinue(u) ==
    /\ pril[u] # FREE
    /\ CountFrom(u, UnmarkUpdater(list, update_list, u, pril[u]),
                 DropAt(update_list, Position(update_list, u)), pril[u])
    /\ UNCHANGED crashed

\* A kernel that has crashed takes no further step.
Halt == crashed /\ UNCHANGED vars

Next ==
    \/ /\ ~crashed
       /\ \/ \E e \in Entry : Remove(e)
          \/ \E e \in Entry, p \in Prio : Add(e, p)
          \/ \E e \in Entry, p \in Prio : Reposition(e, p)
          \/ \E u \in Updater : DebugChannel(u)
          \/ \E u \in Updater : DebugChannelContinue(u)
    \/ Halt

Spec == Init /\ [][Next]_vars
-----------------------------------------------------------------------------
\* The fields of the list and the updaters have the types of their C structs,
\* and update_list holds each updater at most once.
TypeOK ==
    /\ list \in ListType
    /\ update_list \in Seq(Updater)
    /\ Len(update_list) <= Cardinality(Updater)
    /\ pril \in [Updater -> Ptr \cup {FREE}]
    /\ crashed \in BOOLEAN

\* pril_validate, the kernel's own check of a list (compiled in with
\* DEBUG_PRIL): a HEAD points at the end of its level, any other entry back at
\* its predecessor; only a TAIL is followed by a lower priority.
pril_validate ==
    LET w == Walk(list)
    IN  /\ Len(w) <= Cardinality(Entry)
        /\ \A i \in DOMAIN w :
             LET p == w[i]
                 n == list.next[p]
             IN  /\ IF "HEAD" \in list.flag[p]
                    THEN /\ list.prev[p] \in OnList(list)
                         /\ list.prio[list.prev[p]] = list.prio[p]
                         /\ "TAIL" \in list.flag[list.prev[p]]
                    ELSE i > 1 /\ list.prev[p] = w[i - 1]
                 /\ IF "TAIL" \in list.flag[p]
                    THEN n # NULL => list.prio[p] > list.prio[n]
                    ELSE n # NULL /\ list.prio[p] = list.prio[n]

\* The pointer structure is a priority queue: pril_add, pril_rem and the
\* repositioning of adjust_priority act on the list, read along its next
\* pointers, as insertion and removal act on a FIFO-per-priority queue.
Contents == LET w == Walk(list)
            IN  [i \in DOMAIN w |-> [entry |-> w[i], prio |-> list.prio[w[i]]]]
Queue == INSTANCE PrilQueue WITH queue <- Contents
ImplementsQueue == Queue!Spec

\* A preempted DebugChannel call never holds an entry that has left the list,
\* and its entry is marked, so that the next pril_rem will move it on.
UpdatersTracked ==
    ~crashed => \A u \in Updater : pril[u] \notin {FREE, NULL} =>
                    /\ pril[u] \in OnList(list)
                    /\ "UPDATER" \in list.flag[pril[u]]

\* "We're deleting an entry that somebody is using - update to the next one":
\* removing the entry an updater stands on moves the updater and goes on.
UpdaterSurvivesRemoval == ~crashed
=============================================================================
