--------------------------- MODULE SignalsProofs ----------------------------
(***************************************************************************)
(* Signals, for any number of threads and signals: the mask of a thread is *)
(* restored, an unblocked signal is not forgotten, and a stop and SIGCONT  *)
(* cancel each other.                                                      *)
(***************************************************************************)
EXTENDS Signals, WellFoundedInduction, TLAPS

\* A list of pending signals: the counts of the entries of every signal.  Only equal signals
\* are counted in one entry.
Counts == IF TRUE \in Repeats THEN Nat \ {0} ELSE {1}
Entries == Seq(Counts)
AllLists == [Lists -> [Sig -> Entries]]
MaskSet == SUBSET Sig

ThreadTypes ==
    /\ blocked \in [Thread -> MaskSet] /\ saved \in [Thread -> MaskSet]
    /\ active \in [Thread -> BOOLEAN] /\ suspended \in [Thread -> BOOLEAN]
    /\ state \in [Thread -> States] /\ wait \in [Thread -> MaskSet]
FrameTypes ==
    /\ frames \in [Thread -> Seq(MaskSet)] /\ want \in [Thread -> Seq(SUBSET MaskSet)]
    /\ \A t \in Thread : Len(want[t]) = Len(frames[t]) + 1
ActionTypes == action \in [Sig -> [handler : {"dfl", "ign", "fn"}, flags : SUBSET Flags, mask : MaskSet]]
FlagTypes == stopped \in BOOLEAN /\ dead \in BOOLEAN /\ stale \in BOOLEAN
Types == pending \in AllLists /\ ThreadTypes /\ FrameTypes /\ ActionTypes /\ FlagTypes

\* A thread that does not exist has nothing, so that one that is created starts with nothing.
Gone(t) == state[t] = "none" => (\A s \in Sig : pending[t][s] = <<>>) /\ ~active[t] /\ ~suspended[t] /\ frames[t] = <<>>
BaseInv == Types /\ \A t \in Thread : Gone(t)
-----------------------------------------------------------------------------
(* The lists *)

\* The counts that an entry can have.
LEMMA CountsOK ==
    /\ 1 \in Counts
    /\ \A n \in Counts : n \in Nat /\ (n # 1 => n - 1 \in Counts) /\ (TRUE \in Repeats => n + 1 \in Counts)
    /\ TRUE \notin Repeats => \A n \in Counts : n = 1
<1>1. CASE TRUE \in Repeats
      <2>1. Counts = Nat \ {0} BY <1>1, Zenon DEF Counts
      <2>2. 1 \in Counts /\ \A n \in Counts : n \in Nat /\ (n # 1 => n - 1 \in Counts) /\ n + 1 \in Counts BY <2>1
      <2>. QED BY <1>1, <2>2, Zenon
<1>2. CASE TRUE \notin Repeats
      <2>1. Counts = {1} BY <1>2, Zenon DEF Counts
      <2>2. 1 \in Counts /\ \A n \in Counts : n \in Nat /\ n = 1 BY <2>1
      <2>. QED BY <1>2, <2>2, Zenon
<1>. QED BY <1>1, <1>2

\* An entry is added, or counted in one that is there.
LEMMA AddEntry ==
    ASSUME NEW es \in Entries, NEW s, NEW same \in Repeats
    PROVE  pulse_add(es, s, same) \in Entries /\ pulse_add(es, s, same) # <<>>
<1>1. same \in BOOLEAN BY SignalsAssumption
<1>2. CASE same /\ es # <<>>
      <2>1. Len(es) \in 1 .. Len(es) /\ es[Len(es)] \in Counts BY <1>2 DEF Entries
      <2>2. es[Len(es)] + 1 \in Counts BY <1>2, <2>1, CountsOK
      <2>3. [es EXCEPT ![Len(es)] = @ + 1] \in Entries /\ [es EXCEPT ![Len(es)] = @ + 1] # <<>>
            BY <2>1, <2>2 DEF Entries
      <2>. QED BY <1>2, <2>3 DEF pulse_add
<1>3. CASE ~(same /\ es # <<>>) BY <1>3, CountsOK DEF pulse_add, Entries
<1>. QED BY <1>2, <1>3

\* The first entry is taken, or counted down.
LEMMA TakeEntry ==
    ASSUME NEW es \in Entries, es # <<>>
    PROVE  pulse_remove(es) \in Entries /\ (TRUE \notin Repeats => pulse_remove(es) = Tail(es))
<1>1. 1 \in 1 .. Len(es) /\ es[1] \in Counts BY DEF Entries
<1>2. CASE es[1] = 1 BY <1>1, <1>2 DEF pulse_remove, Entries
<1>3. CASE es[1] # 1
      <2>1. es[1] - 1 \in Counts BY <1>1, <1>3, CountsOK
      <2>2. [es EXCEPT ![1] = @ - 1] \in Entries BY <1>1, <2>1 DEF Entries
      <2>3. ~(TRUE \notin Repeats) BY <1>1, <1>3, CountsOK, Zenon
      <2>. QED BY <1>3, <2>2, <2>3, Zenon DEF pulse_remove
<1>. QED BY <1>2, <1>3

\* The debugger takes one signal of an entry.
LEMMA ClearEntry ==
    ASSUME NEW es \in Entries, NEW i \in DOMAIN es
    PROVE  (IF es[i] = 1 THEN SubSeq(es, 1, i - 1) \o SubSeq(es, i + 1, Len(es)) ELSE [es EXCEPT ![i] = @ - 1]) \in Entries
<1>1. i \in 1 .. Len(es) /\ es[i] \in Counts BY DEF Entries
<1>2. CASE es[i] = 1
      <2>1. SubSeq(es, 1, i - 1) \in Entries /\ SubSeq(es, i + 1, Len(es)) \in Entries BY <1>1 DEF Entries
      <2>. QED BY <1>2, <2>1 DEF Entries
<1>3. CASE es[i] # 1
      <2>1. es[i] - 1 \in Counts BY <1>1, <1>3, CountsOK
      <2>. QED BY <1>1, <1>3, <2>1 DEF Entries
<1>. QED BY <1>2, <1>3

\* signal_remove leaves every list as it is or empties it.
LEMMA RemovedLists ==
    ASSUME NEW p \in AllLists, NEW S
    PROVE  /\ signal_remove(p, S) \in AllLists
           /\ \A q \in Lists, s \in Sig : signal_remove(p, S)[q][s] = IF s \in S THEN <<>> ELSE p[q][s]
BY DEF signal_remove, AllLists, Entries

\* The lists are those of the threads and that of the process.
LEMMA ThreadInLists == Thread \subseteq Lists /\ prp \in Lists /\ prp \notin Thread
BY SignalsAssumption DEF Lists

\* The entries of one signal of one list change.
LEMMA ChangeEntries ==
    ASSUME NEW p \in AllLists, NEW l \in Lists, NEW s \in Sig, NEW es \in Entries
    PROVE  /\ [p EXCEPT ![l][s] = es] \in AllLists
           /\ \A q \in Lists, r \in Sig : [p EXCEPT ![l][s] = es][q][r] = IF q = l /\ r = s THEN es ELSE p[q][r]
BY DEF AllLists

\* A stop removes SIGCONT.
LEMMA StopRemovesCont == Removes(SIGTSTP) = {SIGCONT}
BY DEF Removes

\* signal_block: what is left in the lists.
BlockedLists(t, m, l) ==
    /\ l \in AllLists
    /\ \A q \in Lists \ {t}, s \in Sig : l[q][s] # <<>> => l[q][s] = pending[q][s]
    /\ \A s \in Sig \ m : l[prp][s] = <<>>
    /\ \A s \in Sig : l[t][s] # <<>> => pending[t][s] # <<>> \/ (s \notin m /\ pending[prp][s] # <<>>)

\* signal_block leaves that.
LEMMA BlockLists ==
    ASSUME pending \in AllLists, NEW t \in Thread, NEW m \in MaskSet
    PROVE  /\ BlockedLists(t, m, SignalBlock(t, m).lists)
           /\ SignalBlock(t, m).stopped => stopped \/ (SIGCONT \in Sig => \A q \in Lists : SignalBlock(t, m).lists[q][SIGCONT] = <<>>)
<1> DEFINE p1 == [pending EXCEPT
                    ![prp] = [s \in Sig |-> IF s \in Moved(m) THEN <<>> ELSE @[s]],
                    ![t]   = [s \in Sig |-> IF s \in Moved(m) THEN @[s] \o pending[prp][s] ELSE @[s]]]
           tstp == SIGTSTP \in Open(p1, t, m)
           p2 == IF tstp THEN signal_remove(p1, Removes(SIGTSTP)) ELSE p1
           p3 == [p2 EXCEPT ![t] = [s \in Sig |-> IF s \notin m /\ Done(s) THEN <<>> ELSE @[s]]]
<1>1. SignalBlock(t, m).lists = p3 /\ SignalBlock(t, m).stopped = (stopped \/ (tstp /\ ~Handler(SIGTSTP)))
      BY Zenon DEF SignalBlock
<1>2. /\ p1 \in AllLists
      /\ \A q \in Lists \ {t, prp} : p1[q] = pending[q]
      /\ \A s \in Sig : /\ p1[prp][s] = IF s \in Moved(m) THEN <<>> ELSE pending[prp][s]
                        /\ p1[t][s] = IF s \in Moved(m) THEN pending[t][s] \o pending[prp][s] ELSE pending[t][s]
      <2>1. /\ [s \in Sig |-> IF s \in Moved(m) THEN <<>> ELSE pending[prp][s]] \in [Sig -> Entries]
            /\ [s \in Sig |-> IF s \in Moved(m) THEN pending[t][s] \o pending[prp][s] ELSE pending[t][s]] \in [Sig -> Entries]
            BY ThreadInLists DEF AllLists, Entries
      <2>2. p1 = [pending EXCEPT ![prp] = [s \in Sig |-> IF s \in Moved(m) THEN <<>> ELSE pending[prp][s]],
                                 ![t] = [s \in Sig |-> IF s \in Moved(m) THEN pending[t][s] \o pending[prp][s] ELSE pending[t][s]]]
            BY ThreadInLists DEF AllLists
      <2> HIDE DEF p1
      <2>. QED BY <2>1, <2>2, ThreadInLists DEF AllLists
<1> HIDE DEF p1
<1>3. /\ p2 \in AllLists
      /\ \A q \in Lists, s \in Sig : p2[q][s] = <<>> \/ p2[q][s] = p1[q][s]
      /\ tstp => \A q \in Lists : SIGCONT \in Sig => p2[q][SIGCONT] = <<>>
      BY <1>2, RemovedLists, StopRemovesCont
<1> HIDE DEF p2, tstp
<1>4. /\ p3 \in AllLists
      /\ \A q \in Lists, s \in Sig : p3[q][s] = <<>> \/ p3[q][s] = p2[q][s]
      <2>1. [s \in Sig |-> IF s \notin m /\ Done(s) THEN <<>> ELSE p2[t][s]] \in [Sig -> Entries]
            BY <1>3, ThreadInLists DEF AllLists, Entries
      <2>2. p3 = [p2 EXCEPT ![t] = [s \in Sig |-> IF s \notin m /\ Done(s) THEN <<>> ELSE p2[t][s]]] OBVIOUS
      <2> HIDE DEF p3
      <2>. QED BY <1>3, <2>1, <2>2, ThreadInLists DEF AllLists
<1> HIDE DEF p3
<1>5. \A s \in Sig : s \in Moved(m) <=> s \notin m /\ pending[prp][s] # <<>> BY DEF Moved, Open
<1>6. \A q \in Lists \ {t}, s \in Sig : p1[q][s] = <<>> \/ p1[q][s] = pending[q][s]
      BY <1>2, ThreadInLists
<1>7. \A s \in Sig : p1[t][s] # <<>> => pending[t][s] # <<>> \/ (s \notin m /\ pending[prp][s] # <<>>)
      BY <1>2, <1>5
<1>8. BlockedLists(t, m, p3)
      <2>1. \A q \in Lists \ {t}, s \in Sig : p3[q][s] # <<>> => p3[q][s] = pending[q][s]
            BY <1>3, <1>4, <1>6
      <2>2. \A s \in Sig \ m : p3[prp][s] = <<>> BY <1>2, <1>3, <1>4, <1>5, ThreadInLists
      <2>3. \A s \in Sig : p3[t][s] # <<>> => pending[t][s] # <<>> \/ (s \notin m /\ pending[prp][s] # <<>>)
            BY <1>3, <1>4, <1>7, ThreadInLists
      <2>. QED BY <1>4, <2>1, <2>2, <2>3 DEF BlockedLists
<1>9. tstp => (SIGCONT \in Sig => \A q \in Lists : p3[q][SIGCONT] = <<>>)
      BY <1>3, <1>4
<1>. QED BY <1>1, <1>8, <1>9, Zenon

\* signal_remove keeps the flag of a thread, or re-evaluates it.
LEMMA FlagsStay ==
    ASSUME active \in [Thread -> BOOLEAN], NEW p, NEW S
    PROVE  /\ StillActive(p, S) \in [Thread -> BOOLEAN]
           /\ \A u \in Thread : \/ StillActive(p, S)[u] = active[u]
                                \/ StillActive(p, S)[u] = (active[u] /\ Open(p, u, blocked[u]) # {})
<1>1. CASE S = {} BY <1>1, Zenon DEF StillActive
<1>2. CASE S # {} BY <1>2, Zenon DEF StillActive
<1>. QED BY <1>1, <1>2

\* signal_block: the active flags are exact for the thread, and only dropped for the others.
LEMMA BlockFlags ==
    ASSUME FlagTypes, active \in [Thread -> BOOLEAN], NEW t \in Thread, NEW m \in MaskSet
    PROVE  LET b == SignalBlock(t, m) IN
           /\ b.active \in [Thread -> BOOLEAN] /\ b.stopped \in BOOLEAN /\ b.stale \in BOOLEAN
           /\ b.active[t] = (Open(b.lists, t, m) # {})
           /\ \A u \in Thread \ {t} : b.active[u] = active[u] \/ b.active[u] = (active[u] /\ Open(b.lists, u, blocked[u]) # {})
<1>1. PICK S : SignalBlock(t, m).active = [u \in Thread |-> IF u = t THEN Open(SignalBlock(t, m).lists, t, m) # {}
                                                            ELSE StillActive(SignalBlock(t, m).lists, S)[u]]
      BY Zenon DEF SignalBlock
<1>2. /\ StillActive(SignalBlock(t, m).lists, S) \in [Thread -> BOOLEAN]
      /\ \A u \in Thread : \/ StillActive(SignalBlock(t, m).lists, S)[u] = active[u]
                           \/ StillActive(SignalBlock(t, m).lists, S)[u] = (active[u] /\ Open(SignalBlock(t, m).lists, u, blocked[u]) # {})
      BY FlagsStay
<1>3. SignalBlock(t, m).stopped \in BOOLEAN /\ SignalBlock(t, m).stale \in BOOLEAN
      BY Zenon DEF SignalBlock, FlagTypes
<1>4. SignalBlock(t, m).active \in [Thread -> BOOLEAN] BY <1>1, <1>2, Zenon
<1>. QED BY <1>1, <1>2, <1>3, <1>4, Zenon
-----------------------------------------------------------------------------
(***************************************************************************)
(* What a step does to a thread that does not call: it may be woken, get a *)
(* signal or lose one, and keeps its masks.                                *)
(***************************************************************************)
SameMask(u) == /\ blocked'[u] = blocked[u] /\ suspended'[u] = suspended[u] /\ saved'[u] = saved[u]
               /\ frames'[u] = frames[u] /\ want'[u] = want[u]
NoMore(q) == \A s \in Sig : pending'[q][s] # <<>> => pending[q][s] # <<>>
Stirs(u) ==
    /\ state'[u] = state[u] \/ (state[u] # "none" /\ state'[u] = "run")
    /\ Open(pending', u, blocked[u]) # {} =>
         \/ state[u] # "none" /\ active'[u] /\ state'[u] = "run"
         \/ Open(pending, u, blocked[u]) # {} /\ (active[u] => active'[u])
    /\ state[u] = "none" => NoMore(u) /\ (active'[u] => active[u])
Calm(u) == SameMask(u) /\ Stirs(u) /\ (state'[u] = "waitinfo" => wait'[u] = wait[u])

\* The process gets only signals that no thread takes.
ProcessList == \A s \in Sig : pending'[prp][s] # <<>> => pending[prp][s] # <<>> \/ Takers(s) = {}

\* A list that gets nothing has nothing new to look for.
LEMMA OpenShrinks ==
    ASSUME NEW u, NEW m, NoMore(u)
    PROVE  Open(pending', u, m) # {} => Open(pending, u, m) # {}
BY Zenon DEF Open, NoMore

\* A thread whose flag is still set if there is something to look for.
LEMMA StillStirs ==
    ASSUME NEW u \in Thread, NoMore(u), state'[u] = state[u],
           active'[u] = active[u] \/ active'[u] = (active[u] /\ Open(pending', u, blocked[u]) # {})
    PROVE  Stirs(u)
BY OpenShrinks, Zenon DEF Stirs
-----------------------------------------------------------------------------
(* SignalKill *)

\* A signal for a thread.
LEMMA KillThread ==
    ASSUME Types, NEW t \in Live, NEW s \in Sig, NEW same \in Repeats, NEW fail \in Fails,
           signal_kill_thread(t, s, same, fail)
    PROVE  /\ pending' \in AllLists /\ NoMore(prp)
           /\ active' \in [Thread -> BOOLEAN] /\ state' \in [Thread -> States] /\ stopped' \in BOOLEAN
           /\ \A u \in Thread : Stirs(u)
<1> DEFINE p == signal_remove(pending, Removes(s) \cap Sig)
           es == p[t][s]
           lost == fail /\ NewEntry(es, same)
           add == IF lost THEN p ELSE [p EXCEPT ![t][s] = pulse_add(es, s, same)]
<1>1. t \in Thread /\ state[t] # "none" BY DEF Live
<1>2. /\ pending \in AllLists /\ state \in [Thread -> States] /\ active \in [Thread -> BOOLEAN] /\ stopped \in BOOLEAN
      BY DEF Types, ThreadTypes, FlagTypes
<1>3. /\ p \in AllLists /\ \A q \in Lists, r \in Sig : p[q][r] # <<>> => pending[q][r] # <<>>
      BY <1>2, RemovedLists
<1> DEFINE still == StillActive(p, Removes(s))
<1>4. /\ still \in [Thread -> BOOLEAN]
      /\ \A u \in Thread : still[u] = active[u] \/ still[u] = (active[u] /\ Open(p, u, blocked[u]) # {})
      BY <1>2, FlagsStay
<1>5. CASE UNCHANGED <<pending, active, state, stopped>>
      <2>1. \A q \in Lists : NoMore(q) BY <1>5, Zenon DEF NoMore
      <2>. QED BY <1>2, <1>5, <2>1, StillStirs, ThreadInLists, Zenon
<1>6. CASE state[t] = "waitinfo" /\ state' = [state EXCEPT ![t] = "run"] /\ UNCHANGED <<pending, active, stopped>>
      <2>1. \A q \in Lists : NoMore(q) BY <1>6, Zenon DEF NoMore
      <2>2. state' \in [Thread -> States] /\ state'[t] = "run" /\ \A u \in Thread \ {t} : state'[u] = state[u]
            BY <1>1, <1>2, <1>6 DEF States
      <2>3. \A u \in Thread \ {t} : Stirs(u) BY <1>6, <2>1, <2>2, StillStirs, ThreadInLists, Zenon
      <2>4. Stirs(t) BY <1>1, <1>6, <2>1, <2>2, ThreadInLists, OpenShrinks, Zenon DEF Stirs
      <2>. QED BY <1>2, <1>6, <2>1, <2>2, <2>3, <2>4, ThreadInLists, Zenon
<1>7. CASE pending' = p /\ active' = still /\ UNCHANGED state /\ stopped' = Stops(s)
      <2>1. \A q \in Lists : NoMore(q) BY <1>3, <1>7, Zenon DEF NoMore
      <2>2. \A u \in Thread : Stirs(u) BY <1>4, <1>7, <2>1, StillStirs, ThreadInLists, Zenon
      <2>3. stopped' \in BOOLEAN BY <1>2, <1>7, Zenon DEF Stops
      <2>. QED BY <1>2, <1>3, <1>4, <1>7, <2>1, <2>2, <2>3, ThreadInLists, Zenon
<1>8. CASE /\ stopped' = Stops(s) /\ pending' = add
           /\ active' = [still EXCEPT ![t] = @ \/ s \notin blocked[t]]
           /\ state' = IF s \notin blocked[t] THEN Awake([u \in Thread |-> u = t]) ELSE state
      <2>1. stopped' \in BOOLEAN BY <1>2, <1>8, Zenon DEF Stops
      <2>2. /\ active' \in [Thread -> BOOLEAN]
            /\ active'[t] = (still[t] \/ s \notin blocked[t])
            /\ \A u \in Thread \ {t} : active'[u] = still[u]
            <3> HIDE DEF still
            <3>. QED BY <1>1, <1>4, <1>8, Zenon
      <2>3. /\ state' \in [Thread -> States] /\ \A u \in Thread \ {t} : state'[u] = state[u]
            /\ s \notin blocked[t] => state'[t] = "run"
            /\ s \in blocked[t] => state'[t] = state[t]
            BY <1>1, <1>2, <1>8 DEF Awake, States
      <2>4. pending' \in AllLists /\ \A q \in Lists, r \in Sig : q # t \/ r # s => pending'[q][r] = p[q][r]
            <3>1. es \in Entries BY <1>1, <1>3, ThreadInLists, Zenon DEF AllLists
            <3>2. pending' = p \/ pending' = [p EXCEPT ![t][s] = pulse_add(es, s, same)] BY <1>8, Zenon
            <3> HIDE DEF p, es
            <3>3. pulse_add(es, s, same) \in Entries BY <3>1, AddEntry
            <3>4. t \in Lists BY <1>1, ThreadInLists, Zenon
            <3> DEFINE e == pulse_add(es, s, same)
            <3>5. /\ [p EXCEPT ![t][s] = e] \in AllLists
                  /\ \A q \in Lists, r \in Sig : [p EXCEPT ![t][s] = e][q][r] = IF q = t /\ r = s THEN e ELSE p[q][r]
                  <4>1. e \in Entries BY <3>3, Zenon
                  <4> HIDE DEF e
                  <4>. QED BY <1>3, <4>1, <3>4, ChangeEntries
            <3>6. CASE pending' = p BY <1>3, <3>6, Zenon
            <3>7. CASE pending' = [p EXCEPT ![t][s] = e]
                  <4> HIDE DEF e
                  <4>. QED BY <3>5, <3>7, Zenon
            <3>. QED BY <3>2, <3>6, <3>7, Zenon
      <2>5. \A q \in Lists \ {t} : NoMore(q) BY <1>3, <2>4 DEF NoMore
      <2>6. \A u \in Thread \ {t} : Stirs(u)
            <3>1. ASSUME NEW u \in Thread \ {t} PROVE Open(p, u, blocked[u]) = Open(pending', u, blocked[u])
                  BY <2>4, ThreadInLists DEF Open
            <3>. QED BY <1>4, <2>2, <2>3, <2>5, <3>1, StillStirs, ThreadInLists, Zenon
      <2>7. Stirs(t)
            <3>1. CASE s \notin blocked[t] BY <1>1, <2>2, <2>3, <3>1 DEF Stirs
            <3>2. CASE s \in blocked[t]
                  <4>1. Open(pending', t, blocked[t]) = Open(p, t, blocked[t]) BY <1>1, <2>4, <3>2, ThreadInLists DEF Open
                  <4>2. Open(p, t, blocked[t]) # {} => Open(pending, t, blocked[t]) # {} BY <1>1, <1>3, ThreadInLists DEF Open
                  <4>. QED BY <1>1, <1>4, <2>2, <2>3, <3>2, <4>1, <4>2 DEF Stirs
            <3>. QED BY <3>1, <3>2
      <2>. QED BY <1>1, <2>1, <2>2, <2>3, <2>4, <2>5, <2>6, <2>7, ThreadInLists, Zenon
<1>. QED BY <1>5, <1>6, <1>7, <1>8, Zenon DEF signal_kill_thread

\* A signal for the process, which keeps it only if no thread takes it.
LEMMA KillProcess ==
    ASSUME Types, NEW s \in Sig, NEW same \in Repeats, NEW fail \in Fails,
           signal_kill_process(s, same, fail)
    PROVE  /\ pending' \in AllLists /\ ProcessList
           /\ active' \in [Thread -> BOOLEAN] /\ state' \in [Thread -> States] /\ stopped' \in BOOLEAN
           /\ \A u \in Thread : Stirs(u)
<1> DEFINE R == IF s = SIGCONT THEN Removes(s) ELSE {}
           p == signal_remove(pending, R \cap Sig)
           es == p[prp][s]
           lost == fail /\ NewEntry(es, same)
<1>1. CASE \E t \in Takers(s) : signal_kill_thread(t, s, same, fail)
      <2>1. PICK t \in Takers(s) : signal_kill_thread(t, s, same, fail) BY <1>1
      <2>2. t \in Live BY DEF Takers
      <2>. QED BY <2>1, <2>2, KillThread, Zenon DEF NoMore, ProcessList
<1>2. /\ pending \in AllLists /\ state \in [Thread -> States] /\ active \in [Thread -> BOOLEAN] /\ stopped \in BOOLEAN
      BY DEF Types, ThreadTypes, FlagTypes
<1>3. CASE UNCHANGED <<pending, active, state, stopped>>
      <2>1. \A q \in Lists : NoMore(q) BY <1>3, Zenon DEF NoMore
      <2>. QED BY <1>2, <1>3, <2>1, StillStirs, ThreadInLists, Zenon DEF NoMore, ProcessList
<1>4. CASE /\ Takers(s) = {} /\ stopped' = IF s = SIGCONT THEN FALSE ELSE stopped
           /\ pending' = p \/ pending' = [p EXCEPT ![prp][s] = pulse_add(es, s, same)]
           /\ active' = StillActive(p, R) /\ UNCHANGED state
      <2>1. /\ p \in AllLists /\ \A q \in Lists, r \in Sig : p[q][r] # <<>> => pending[q][r] # <<>>
            BY <1>2, RemovedLists
      <2>2. pending' \in AllLists /\ \A q \in Lists, r \in Sig : q # prp \/ r # s => pending'[q][r] = p[q][r]
            <3>1. es \in Entries BY <2>1, ThreadInLists, Zenon DEF AllLists
            <3> HIDE DEF p, es
            <3>2. pulse_add(es, s, same) \in Entries BY <3>1, AddEntry
            <3>3. prp \in Lists BY ThreadInLists
            <3> DEFINE e == pulse_add(es, s, same)
            <3>4. /\ [p EXCEPT ![prp][s] = e] \in AllLists
                  /\ \A q \in Lists, r \in Sig : [p EXCEPT ![prp][s] = e][q][r] = IF q = prp /\ r = s THEN e ELSE p[q][r]
                  <4>1. e \in Entries BY <3>2, Zenon
                  <4> HIDE DEF e
                  <4>. QED BY <2>1, <4>1, <3>3, ChangeEntries
            <3>5. CASE pending' = p BY <2>1, <3>5, Zenon
            <3>6. CASE pending' = [p EXCEPT ![prp][s] = e] 
                  <4> HIDE DEF e
                  <4>. QED BY <3>4, <3>6, Zenon
            <3>. QED BY <1>4, <3>5, <3>6, Zenon
      <2>3. /\ active' \in [Thread -> BOOLEAN]
            /\ \A u \in Thread : active'[u] = active[u] \/ active'[u] = (active[u] /\ Open(p, u, blocked[u]) # {})
            <3> HIDE DEF p, R
            <3>. QED BY <1>2, <1>4, FlagsStay, Zenon
      <2>4. \A u \in Thread : NoMore(u) BY <2>1, <2>2, ThreadInLists DEF NoMore
      <2>5. ASSUME NEW u \in Thread PROVE Open(p, u, blocked[u]) = Open(pending', u, blocked[u])
            BY <2>2, ThreadInLists DEF Open
      <2>6. \A u \in Thread : Stirs(u) BY <1>4, <2>3, <2>4, <2>5, StillStirs, Zenon
      <2>7. ProcessList BY <1>4, <2>1, <2>2, ThreadInLists DEF ProcessList
      <2>8. stopped' \in BOOLEAN BY <1>2, <1>4
      <2>. QED BY <1>2, <1>4, <2>2, <2>3, <2>6, <2>7, <2>8, Zenon
<1>. QED BY <1>1, <1>3, <1>4, Zenon DEF signal_kill_process

\* What belongs to the waits and the handlers does not change.
LEMMA KillCalm ==
    ASSUME Types, NEW s \in Sig, SignalKill(s)
    PROVE  /\ Types' /\ ProcessList /\ ~dead /\ ~stale
           /\ \A u \in Thread : Calm(u)
<1>1. PICK same \in Repeats, fail \in Fails :
        signal_kill_process(s, same, fail) \/ \E t \in Live : signal_kill_thread(t, s, same, fail)
      BY Zenon DEF SignalKill
<1>2. /\ ~dead /\ ~stale /\ Forget
      /\ UNCHANGED <<blocked, suspended, saved, frames, want, env, dead, stale>>
      BY Zenon DEF SignalKill
<1>3. /\ pending' \in AllLists /\ ProcessList
      /\ active' \in [Thread -> BOOLEAN] /\ state' \in [Thread -> States] /\ stopped' \in BOOLEAN
      /\ \A u \in Thread : Stirs(u)
      BY <1>1, KillProcess, KillThread, Zenon DEF NoMore, ProcessList
<1>4. wait' \in [Thread -> MaskSet] /\ \A u \in Thread : state'[u] = "waitinfo" => wait'[u] = wait[u]
      BY <1>2 DEF Types, ThreadTypes, Forget, MaskSet
<1>5. Types' BY <1>2, <1>3, <1>4 DEF Types, ThreadTypes, FrameTypes, ActionTypes, FlagTypes, env
<1>6. \A u \in Thread : SameMask(u) BY <1>2, Zenon DEF SameMask
<1>. QED BY <1>2, <1>3, <1>4, <1>5, <1>6, Zenon DEF Calm
-----------------------------------------------------------------------------
(* The other steps, and what they leave to the threads that do not call *)

StopKept == StoppedWithoutCont => StoppedWithoutCont'
Quiet(S) == Types' /\ ProcessList /\ StopKept /\ \A u \in Thread \ S : Calm(u)

\* A step that touches neither the lists of the process nor the thread.
LEMMA Untouched ==
    ASSUME NEW u \in Thread, SameMask(u), NoMore(u), state'[u] = state[u], wait'[u] = wait[u],
           active'[u] = active[u] \/ active'[u] = (active[u] /\ Open(pending', u, blocked[u]) # {})
    PROVE  Calm(u)
BY StillStirs, Zenon DEF Calm

\* A step that adds nothing to the list of the process.
LEMMA NothingForProcess ==
    ASSUME NoMore(prp)
    PROVE  ProcessList
BY Zenon DEF NoMore, ProcessList

\* A step that neither stops the process nor adds to a list.
LEMMA NothingForStopped ==
    ASSUME \A q \in Lists : NoMore(q), stopped' = stopped
    PROVE  StopKept
BY Zenon DEF StopKept, StoppedWithoutCont, NoMore

\* A step that leaves the lists as they are.
LEMMA SameLists ==
    ASSUME UNCHANGED pending
    PROVE  ProcessList /\ \A q \in Lists : NoMore(q)
BY Zenon DEF ProcessList, NoMore

\* SignalAction removes signals that are ignored from now on.
LEMMA ActionQuiet ==
    ASSUME Types, NEW t \in Thread, NEW s \in Sig, NEW h \in {"dfl", "ign", "fn"}, NEW f \in SUBSET Flags, NEW m \in MaskSet,
           NEW q, SignalAction(t, s, [handler |-> h, flags |-> f, mask |-> m], q)
    PROVE  Quiet({}) /\ ~dead /\ ~stale
<1> DEFINE a == [handler |-> h, flags |-> f, mask |-> m]
           gone == a.handler = "ign" \/ (a.handler = "dfl" /\ s \in DflIgnore \cup {SIGCONT})
           p == IF gone THEN signal_remove(pending, {s}) ELSE pending
<1>1. /\ CanRun(t) /\ pending' = p /\ active' = StillActive(p, IF gone THEN {s} ELSE {})
      /\ action' = [action EXCEPT ![s] = a] \/ action' = [action EXCEPT ![s] = DFL]
      /\ UNCHANGED <<blocked, suspended, saved, state, mem, stopped, dead, stale, report>>
      BY Zenon DEF SignalAction
<1>2. pending \in AllLists /\ active \in [Thread -> BOOLEAN] BY DEF Types, ThreadTypes
<1>3. p \in AllLists /\ \A l \in Lists, r \in Sig : p[l][r] # <<>> => pending[l][r] # <<>> BY <1>2, RemovedLists
<1>4. /\ active' \in [Thread -> BOOLEAN]
      /\ \A u \in Thread : active'[u] = active[u] \/ active'[u] = (active[u] /\ Open(pending', u, blocked[u]) # {})
      <2> DEFINE S == IF gone THEN {s} ELSE {}
      <2>1. active' = StillActive(pending', S) BY <1>1, Zenon
      <2> HIDE DEF S
      <2>. QED BY <1>2, <2>1, FlagsStay, Zenon
<1>5. pending' \in AllLists /\ \A l \in Lists : NoMore(l)
      <2> HIDE DEF p
      <2>. QED BY <1>1, <1>3, Zenon DEF NoMore
<1>6. ActionTypes'
      <2>1. DFL \in [handler : {"dfl", "ign", "fn"}, flags : SUBSET Flags, mask : MaskSet] BY DEF DFL, MaskSet
      <2>2. a \in [handler : {"dfl", "ign", "fn"}, flags : SUBSET Flags, mask : MaskSet] OBVIOUS
      <2> HIDE DEF a
      <2>. QED BY <1>1, <2>1, <2>2 DEF ActionTypes, Types
<1>7. Types'
      BY <1>1, <1>4, <1>5, <1>6, Zenon DEF Types, ThreadTypes, FrameTypes, FlagTypes, mem
<1>8. \A u \in Thread : SameMask(u) /\ state'[u] = state[u] /\ wait'[u] = wait[u] BY <1>1, Zenon DEF SameMask, mem
<1>9. \A u \in Thread : Calm(u) BY <1>4, <1>5, <1>8, Untouched, ThreadInLists, Zenon
<1>. QED BY <1>1, <1>5, <1>7, <1>9, NothingForProcess, NothingForStopped, ThreadInLists, Zenon DEF Quiet, CanRun

\* The debugger takes a signal of a thread back.
LEMMA ClearQuiet ==
    ASSUME Types, NEW t \in Thread, NEW s \in Sig, NEW i \in DOMAIN pending[t][s], signal_clear_thread(t, s, i)
    PROVE  Quiet({}) /\ ~dead /\ ~stale
<1> DEFINE es == pending[t][s]
           e == IF es[i] = 1 THEN SubSeq(es, 1, i - 1) \o SubSeq(es, i + 1, Len(es)) ELSE [es EXCEPT ![i] = @ - 1]
           p == [pending EXCEPT ![t][s] = e]
<1>1. /\ ~dead /\ ~stale /\ pending' = p /\ active' = [active EXCEPT ![t] = @ /\ Open(p, t, blocked[t]) # {}]
      /\ UNCHANGED <<blocked, suspended, saved, state, mem, env, stopped, dead, stale, report>>
      BY Zenon DEF signal_clear_thread
<1>2. pending \in AllLists /\ active \in [Thread -> BOOLEAN] BY DEF Types, ThreadTypes
<1>3. es \in Entries /\ es # <<>> BY <1>2, ThreadInLists DEF AllLists
<1>4. e \in Entries BY <1>3, ClearEntry
<1> HIDE DEF e, es
<1>5. p \in AllLists /\ \A l \in Lists, r \in Sig : p[l][r] # <<>> => pending[l][r] # <<>>
      BY <1>2, <1>3, <1>4, ChangeEntries, ThreadInLists DEF es
<1>6. pending' \in AllLists /\ \A l \in Lists : NoMore(l)
      <2> HIDE DEF p
      <2>. QED BY <1>1, <1>5, Zenon DEF NoMore
<1>7. /\ active' \in [Thread -> BOOLEAN]
      /\ \A u \in Thread : active'[u] = active[u] \/ active'[u] = (active[u] /\ Open(pending', u, blocked[u]) # {})
      <2> HIDE DEF p
      <2>. QED BY <1>1, <1>2, Zenon
<1>8. Types' BY <1>1, <1>6, <1>7, Zenon DEF Types, ThreadTypes, FrameTypes, ActionTypes, FlagTypes, mem, env
<1>9. \A u \in Thread : SameMask(u) /\ state'[u] = state[u] /\ wait'[u] = wait[u] BY <1>1, Zenon DEF SameMask, mem
<1>10. \A u \in Thread : Calm(u) BY <1>6, <1>7, <1>9, Untouched, ThreadInLists, Zenon
<1>. QED BY <1>1, <1>6, <1>8, <1>10, NothingForProcess, NothingForStopped, ThreadInLists, Zenon DEF Quiet

\* A thread wakes for another reason than a signal.
LEMMA WakeQuiet ==
    ASSUME Types, NEW t \in Thread, Wake(t)
    PROVE  Quiet({}) /\ ~dead /\ ~stale
<1>1. /\ ~dead /\ ~stale /\ state[t] # "none" /\ state' = [state EXCEPT ![t] = "run"] /\ Forget
      /\ UNCHANGED <<pending, blocked, active, suspended, saved, frames, want, env, stopped, dead, stale, report>>
      BY DEF Wake
<1>2. /\ state' \in [Thread -> States] /\ state'[t] = "run" /\ \A u \in Thread \ {t} : state'[u] = state[u]
      BY <1>1 DEF Types, ThreadTypes, States
<1>3. wait' \in [Thread -> MaskSet] /\ \A u \in Thread : state'[u] = "waitinfo" => wait'[u] = wait[u]
      BY <1>1 DEF Types, ThreadTypes, Forget, MaskSet
<1>4. Types' BY <1>1, <1>2, <1>3, Zenon DEF Types, ThreadTypes, FrameTypes, ActionTypes, FlagTypes, env
<1>5. ASSUME NEW u \in Thread PROVE Calm(u)
      <2>1. SameMask(u) BY <1>1, Zenon DEF SameMask
      <2>2. Stirs(u)
            <3>1. NoMore(u) /\ (Open(pending', u, blocked[u]) # {} => Open(pending, u, blocked[u]) # {}) BY <1>1, Zenon DEF NoMore
            <3>. QED BY <1>1, <1>2, <3>1, Zenon DEF Stirs
      <2>. QED BY <1>3, <2>1, <2>2, Zenon DEF Calm
<1>. QED BY <1>1, <1>4, <1>5, SameLists, NothingForStopped, Zenon DEF Quiet
-----------------------------------------------------------------------------
(***************************************************************************)
(* The invariants of one thread.                                           *)
(***************************************************************************)
\* The mask that the code of the thread runs with, or will have again after SignalSuspend, is
\* one it may find, and the handlers have saved the masks expected below them.
Top(t) == want[t][Len(want[t])]
MaskOK(t) == /\ (IF suspended[t] THEN saved[t] ELSE blocked[t]) \in Top(t)
             /\ \A i \in 1 .. Len(frames[t]) : frames[t][i] \in want[t][i]

\* The thread looks for an unblocked signal, and the process keeps none that it could take.
Looks(t) == state[t] # "none" /\ Open(pending, t, blocked[t]) # {} => active[t] /\ state[t] = "run"
Leaves(t) == state[t] # "none" =>
    \A s \in Sig : pending[prp][s] # <<>> => s \in blocked[t] /\ ~(state[t] = "waitinfo" /\ s \in wait[t])

\* They hold for a thread that does not call.
LEMMA CalmKeeps ==
    ASSUME NEW u \in Thread, Calm(u)
    PROVE  /\ MaskOK(u) => MaskOK(u)'
           /\ Gone(u) => Gone(u)'
           /\ Looks(u) => Looks(u)'
           /\ ProcessList /\ Leaves(u) => Leaves(u)'
<1>1. MaskOK(u) => MaskOK(u)' BY Zenon DEF Calm, SameMask, MaskOK, Top
<1>2. Gone(u) => Gone(u)' BY DEF Calm, SameMask, Stirs, Gone, NoMore
<1>3. Looks(u) => Looks(u)' BY DEF Calm, SameMask, Stirs, Looks
<1>4. ASSUME ProcessList, Leaves(u) PROVE Leaves(u)'
      <2>1. SUFFICES ASSUME state'[u] # "none", NEW s \in Sig, pending'[prp][s] # <<>>
                     PROVE  s \in blocked'[u] /\ ~(state'[u] = "waitinfo" /\ s \in wait'[u])
            BY Zenon DEF Leaves
      <2>2. blocked'[u] = blocked[u] /\ state[u] # "none" /\ (state'[u] = "waitinfo" => state[u] = "waitinfo" /\ wait'[u] = wait[u])
            BY <2>1 DEF Calm, SameMask, Stirs
      <2>3. s \in blocked[u] /\ ~(state[u] = "waitinfo" /\ s \in wait[u])
            BY <1>4, <2>1, <2>2, Zenon DEF ProcessList, Leaves, Takers, Live
      <2>. QED BY <2>2, <2>3, Zenon
<1>. QED BY <1>1, <1>2, <1>3, <1>4
-----------------------------------------------------------------------------
(* signal_block, for a thread t that gets the mask m *)

Masked(t, m) ==
    /\ pending' \in AllLists /\ active' \in [Thread -> BOOLEAN] /\ stopped' \in BOOLEAN /\ stale' \in BOOLEAN
    /\ NoMore(prp) /\ \A s \in Sig \ m : pending'[prp][s] = <<>>
    /\ \A u \in Thread \ {t} :
         NoMore(u) /\ (active'[u] = active[u] \/ active'[u] = (active[u] /\ Open(pending', u, blocked[u]) # {}))
    /\ active'[t] = (Open(pending', t, m) # {})
    /\ \A s \in Sig : pending'[t][s] # <<>> => pending[t][s] # <<>> \/ (s \notin m /\ pending[prp][s] # <<>>)
    /\ StopKept

\* signal_block does that.
LEMMA BlockEffect ==
    ASSUME Types, NEW t \in Thread, NEW m \in MaskSet, Apply(SignalBlock(t, m))
    PROVE  Masked(t, m)
<1>1. /\ pending' = SignalBlock(t, m).lists /\ active' = SignalBlock(t, m).active
      /\ stopped' = SignalBlock(t, m).stopped /\ stale' = SignalBlock(t, m).stale
      BY Zenon DEF Apply
<1>2. pending \in AllLists /\ FlagTypes /\ active \in [Thread -> BOOLEAN] BY DEF Types, ThreadTypes
<1>3. BlockedLists(t, m, pending') BY <1>1, <1>2, BlockLists, Zenon
<1>4. /\ active' \in [Thread -> BOOLEAN] /\ stopped' \in BOOLEAN /\ stale' \in BOOLEAN
      /\ active'[t] = (Open(pending', t, m) # {})
      /\ \A u \in Thread \ {t} : active'[u] = active[u] \/ active'[u] = (active[u] /\ Open(pending', u, blocked[u]) # {})
      BY <1>1, <1>2, BlockFlags, Zenon
<1>5. \A q \in Lists \ {t} : NoMore(q) BY <1>3, Zenon DEF BlockedLists, NoMore
<1>6. prp \in Lists \ {t} /\ \A u \in Thread \ {t} : u \in Lists \ {t} BY ThreadInLists
<1>7. StopKept
      <2>1. SUFFICES ASSUME StoppedWithoutCont, stopped', SIGCONT \in Sig, NEW q \in Lists
                     PROVE  pending'[q][SIGCONT] = <<>>
            BY Zenon DEF StopKept, StoppedWithoutCont
      <2>2. CASE ~stopped BY <1>1, <1>2, <2>1, <2>2, BlockLists, Zenon
      <2>3. CASE stopped
            <3>1. \A l \in Lists : pending[l][SIGCONT] = <<>> BY <2>1, <2>3, Zenon DEF StoppedWithoutCont
            <3>. QED BY <1>3, <1>6, <2>1, <3>1, ThreadInLists, Zenon DEF BlockedLists
      <2>. QED BY <2>2, <2>3
<1>. QED BY <1>3, <1>4, <1>5, <1>6, <1>7, Zenon DEF Masked, BlockedLists

\* The code that t runs may find itself under the masks M.
Expects(t, M) ==
    /\ want' \in [Thread -> Seq(SUBSET MaskSet)] /\ \A u \in Thread \ {t} : want'[u] = want[u]
    /\ \A u \in Thread : Len(want'[u]) = Len(want[u])
    /\ want'[t][Len(want'[t])] = M /\ \A i \in 1 .. Len(frames[t]) : want'[t][i] = want[t][i]

\* The masks for the nesting that the thread is in.
LEMMA NewTop ==
    ASSUME Types, NEW t \in Thread, NEW M \in SUBSET MaskSet, want' = [want EXCEPT ![t][Len(want[t])] = M]
    PROVE  Expects(t, M)
<1>1. /\ want[t] \in Seq(SUBSET MaskSet) /\ Len(want[t]) = Len(frames[t]) + 1 /\ Len(frames[t]) \in Nat
      BY DEF Types, FrameTypes
<1>2. /\ want' \in [Thread -> Seq(SUBSET MaskSet)] /\ \A u \in Thread \ {t} : want'[u] = want[u]
      /\ want'[t] = [want[t] EXCEPT ![Len(want[t])] = M]
      BY <1>1 DEF Types, FrameTypes
<1>3. Len(want'[t]) = Len(want[t]) /\ want'[t][Len(want[t])] = M /\ \A i \in 1 .. Len(frames[t]) : want'[t][i] = want[t][i]
      BY <1>1, <1>2
<1>4. \A u \in Thread : Len(want'[u]) = Len(want[u]) BY <1>2, <1>3
<1>. QED BY <1>2, <1>3, <1>4, Zenon DEF Expects

\* SignalProcmask: for the thread itself or another one.
LEMMA ProcmaskEffect ==
    ASSUME Types, NEW c \in Thread, NEW t \in Thread, NEW m \in MaskSet, SignalProcmask(c, t, m)
    PROVE  /\ Quiet({t}) /\ ~dead /\ ~stale
           /\ MaskOK(t) /\ ~suspended[t] => MaskOK(t)'
           /\ Gone(t)' /\ Looks(t)' /\ (Leaves(t) => Leaves(t)')
<1>1. /\ CanRun(c) /\ state[t] # "none"
      /\ blocked' = [blocked EXCEPT ![t] = m] /\ want' = [want EXCEPT ![t][Len(want[t])] = {m}]
      /\ Apply(SignalBlock(t, m))
      /\ state' = Awake([v \in Thread |-> v = t /\ active'[t]])
      /\ Forget /\ UNCHANGED <<suspended, saved, frames, env, dead, report>>
      BY Zenon DEF SignalProcmask, Procmask, Live
<1>2. Masked(t, m) BY <1>1, BlockEffect
<1>3. /\ state' \in [Thread -> States] /\ \A u \in Thread \ {t} : state'[u] = state[u]
      /\ state'[t] \in {"run", state[t]} /\ (active'[t] => state'[t] = "run")
      <2>1. state \in [Thread -> States] /\ state[t] # "none" BY <1>1 DEF Types, ThreadTypes
      <2>2. \A u \in Thread : state'[u] = IF (u = t /\ active'[t]) /\ state[u] \in {"blocked", "waitinfo", "suspend"} THEN "run" ELSE state[u]
            BY <1>1, Zenon DEF Awake
      <2>3. DOMAIN state' = Thread /\ state' = [u \in Thread |-> state'[u]] BY <1>1 DEF Awake
      <2>4. CASE active'[t] BY <2>1, <2>2, <2>3, <2>4 DEF States
      <2>5. CASE ~active'[t] BY <2>1, <2>2, <2>3, <2>5 DEF States
      <2>. QED BY <2>4, <2>5
<1>4. wait' \in [Thread -> MaskSet] /\ \A u \in Thread : state'[u] = "waitinfo" => wait'[u] = wait[u]
      BY <1>1 DEF Types, ThreadTypes, Forget, MaskSet
<1>5. blocked' \in [Thread -> MaskSet] /\ blocked'[t] = m /\ \A u \in Thread \ {t} : blocked'[u] = blocked[u]
      BY <1>1 DEF Types, ThreadTypes
<1>7. Expects(t, {m})
      <2>1. {m} \in SUBSET MaskSet OBVIOUS
      <2>. QED BY <1>1, <2>1, NewTop
<1>8. want'[t][Len(want'[t])] = {m} /\ \A i \in 1 .. Len(frames[t]) : want'[t][i] = want[t][i]
      BY <1>7, Zenon DEF Expects
<1>9. Types'
      <2>1. FrameTypes' BY <1>1, <1>7, Zenon DEF Types, FrameTypes, Expects
      <2>2. ThreadTypes' BY <1>1, <1>2, <1>3, <1>4, <1>5, Zenon DEF Types, ThreadTypes, Masked
      <2>. QED BY <1>1, <1>2, <2>1, <2>2, Zenon DEF Types, ActionTypes, FlagTypes, Masked, env
<1>10. \A u \in Thread \ {t} : Calm(u)
       <2>1. \A u \in Thread \ {t} : SameMask(u) BY <1>1, <1>5, <1>7, Zenon DEF SameMask, Expects
       <2>. QED BY <1>2, <1>3, <1>4, <2>1, StillStirs, Zenon DEF Masked, Calm
<1>11. ASSUME MaskOK(t), ~suspended[t] PROVE MaskOK(t)'
       <2>1. ~suspended'[t] /\ frames'[t] = frames[t] BY <1>1, <1>11, Zenon
       <2>2. blocked'[t] \in want'[t][Len(want'[t])] BY <1>5, <1>8
       <2>3. \A i \in 1 .. Len(frames'[t]) : frames'[t][i] \in want'[t][i] BY <1>8, <1>11, <2>1, Zenon DEF MaskOK
       <2>. QED BY <2>1, <2>2, <2>3, Zenon DEF MaskOK, Top
<1>12. Gone(t)' BY <1>1, <1>3 DEF Gone
<1>13. Looks(t)' BY <1>2, <1>3, <1>5, Zenon DEF Looks, Masked
<1>14. ASSUME Leaves(t) PROVE Leaves(t)'
       <2>1. SUFFICES ASSUME NEW s \in Sig, pending'[prp][s] # <<>>
                      PROVE  s \in blocked'[t] /\ ~(state'[t] = "waitinfo" /\ s \in wait'[t])
             BY Zenon DEF Leaves
       <2>2. s \in m /\ pending[prp][s] # <<>> BY <1>2, <2>1, Zenon DEF Masked, NoMore
       <2>3. state'[t] = "waitinfo" => state[t] = "waitinfo" BY <1>3
       <2>. QED BY <1>1, <1>4, <1>5, <1>14, <2>2, <2>3, Zenon DEF Leaves
<1>15. ProcessList /\ StopKept BY <1>2, NothingForProcess, Zenon DEF Masked
<1>. QED BY <1>1, <1>9, <1>10, <1>11, <1>12, <1>13, <1>14, <1>15, Zenon DEF Quiet, CanRun

\* The beginning of a sequence.
LEMMA Shorter ==
    ASSUME NEW S, NEW q \in Seq(S), NEW k \in 0 .. Len(q)
    PROVE  /\ SubSeq(q, 1, k) \in Seq(S) /\ Len(SubSeq(q, 1, k)) = k
           /\ \A i \in 1 .. k : SubSeq(q, 1, k)[i] = q[i]
OBVIOUS

\* SignalReturn.
LEMMA ReturnEffect ==
    ASSUME Types, NEW t \in Thread, SignalReturn(t)
    PROVE  /\ Quiet({t}) /\ ~dead /\ ~stale
           /\ MaskOK(t) => MaskOK(t)'
           /\ Gone(t)' /\ Looks(t)' /\ Leaves(t)'
<1> DEFINE n == Len(frames[t])
           m == frames[t][n]
<1>1. /\ CanRun(t) /\ n > 0 /\ blocked' = [blocked EXCEPT ![t] = m] /\ Apply(SignalBlock(t, m))
      /\ frames' = [frames EXCEPT ![t] = SubSeq(@, 1, n - 1)]
      /\ want' = [want EXCEPT ![t] = SubSeq(@, 1, n)]
      /\ UNCHANGED <<suspended, saved, state, wait, env, dead, report>>
      BY Zenon DEF SignalReturn
<1>2. /\ want[t] \in Seq(SUBSET MaskSet) /\ frames[t] \in Seq(MaskSet) /\ Len(want[t]) = n + 1 /\ n \in Nat
      BY DEF Types, FrameTypes
<1>3. m \in MaskSet BY <1>1, <1>2
<1>4. state[t] = "run" /\ ~suspended[t] /\ ~dead /\ ~stale BY <1>1, Zenon DEF CanRun
<1>5. /\ frames' \in [Thread -> Seq(MaskSet)] /\ want' \in [Thread -> Seq(SUBSET MaskSet)]
      /\ \A u \in Thread \ {t} : want'[u] = want[u] /\ frames'[u] = frames[u]
      /\ want'[t] = SubSeq(want[t], 1, n) /\ frames'[t] = SubSeq(frames[t], 1, n - 1)
      <2>1. SubSeq(want[t], 1, n) \in Seq(SUBSET MaskSet) /\ SubSeq(frames[t], 1, n - 1) \in Seq(MaskSet) BY <1>1, <1>2
      <2> HIDE DEF n
      <2>. QED BY <1>1, <2>1 DEF Types, FrameTypes
<1>6. /\ Len(want'[t]) = n /\ Len(frames'[t]) = n - 1
      /\ want'[t][n] = want[t][n] /\ \A i \in 1 .. n - 1 : want'[t][i] = want[t][i] /\ frames'[t][i] = frames[t][i]
      <2>1. n - 1 \in 0 .. Len(frames[t]) /\ n \in 0 .. Len(want[t]) /\ n \in 1 .. n /\ \A i \in 1 .. n - 1 : i \in 1 .. n
            BY <1>1, <1>2
      <2>2. /\ Len(SubSeq(want[t], 1, n)) = n /\ \A i \in 1 .. n : SubSeq(want[t], 1, n)[i] = want[t][i]
            BY <1>2, <2>1, Shorter, Zenon
      <2>3. /\ Len(SubSeq(frames[t], 1, n - 1)) = n - 1
            /\ \A i \in 1 .. n - 1 : SubSeq(frames[t], 1, n - 1)[i] = frames[t][i]
            BY <1>2, <2>1, Shorter, Zenon
      <2> HIDE DEF n
      <2>. QED BY <1>5, <2>1, <2>2, <2>3, Zenon
<1> HIDE DEF m
<1>7. Masked(t, m) BY <1>1, <1>3, BlockEffect
<1>8. blocked' \in [Thread -> MaskSet] /\ blocked'[t] = m /\ \A u \in Thread \ {t} : blocked'[u] = blocked[u]
      BY <1>1, <1>3 DEF Types, ThreadTypes
<1>9. Types'
      <2>1. FrameTypes' 
            <3>1. \A u \in Thread : Len(want'[u]) = Len(frames'[u]) + 1 BY <1>1, <1>2, <1>5, <1>6 DEF Types, FrameTypes
            <3>. QED BY <1>5, <3>1, Zenon DEF FrameTypes
      <2>2. ThreadTypes' BY <1>1, <1>7, <1>8, Zenon DEF Types, ThreadTypes, Masked
      <2>. QED BY <1>1, <1>7, <2>1, <2>2, Zenon DEF Types, ActionTypes, FlagTypes, Masked, env
<1>10. \A u \in Thread \ {t} : Calm(u)
       <2>1. \A u \in Thread \ {t} : SameMask(u) /\ wait'[u] = wait[u] /\ state'[u] = state[u] BY <1>1, <1>5, <1>8, Zenon DEF SameMask
       <2>. QED BY <1>7, <2>1, Untouched, Zenon DEF Masked
<1>11. ASSUME MaskOK(t) PROVE MaskOK(t)'
       <2>1. m \in want[t][n] 
             <3>1. n \in 1 .. Len(frames[t]) BY <1>1, <1>2
             <3>. QED BY <1>11, <3>1, Zenon DEF MaskOK, m
       <2>2. ~suspended'[t] BY <1>1, <1>4, Zenon
       <2>3. blocked'[t] \in want'[t][Len(want'[t])] BY <1>6, <1>8, <2>1
       <2>4. \A i \in 1 .. Len(frames'[t]) : frames'[t][i] \in want'[t][i] BY <1>1, <1>2, <1>6, <1>11 DEF MaskOK
       <2>. QED BY <2>2, <2>3, <2>4, Zenon DEF MaskOK, Top
<1>12. Gone(t)' BY <1>1, <1>4 DEF Gone
<1>13. Looks(t)' BY <1>1, <1>4, <1>7, <1>8, Zenon DEF Looks, Masked
<1>14. Leaves(t)'
       <2>1. state'[t] = "run" BY <1>1, <1>4
       <2>2. "run" # "waitinfo" OBVIOUS
       <2>. QED BY <1>7, <1>8, <2>1, <2>2, Zenon DEF Leaves, Masked
<1>15. ProcessList /\ StopKept BY <1>7, NothingForProcess, Zenon DEF Masked
<1>. QED BY <1>4, <1>9, <1>10, <1>11, <1>12, <1>13, <1>14, <1>15, Zenon DEF Quiet

\* SignalSuspend: the old mask is saved, or stays, or any one will do for the canstub.
LEMMA SuspendEffect ==
    ASSUME Types, NEW t \in Thread, NEW m \in MaskSet, SignalSuspend(t, m)
    PROVE  /\ Quiet({t}) /\ ~dead /\ ~stale
           /\ MaskOK(t) => MaskOK(t)'
           /\ Gone(t)' /\ (Looks(t) /\ Leaves(t) => Looks(t)' /\ Leaves(t)')
<1> DEFINE Waits == /\ suspended' = [suspended EXCEPT ![t] = TRUE] /\ saved' = [saved EXCEPT ![t] = blocked[t]]
                    /\ blocked' = [blocked EXCEPT ![t] = m]
                    /\ state' = [state EXCEPT ![t] = IF active'[t] THEN "run" ELSE "suspend"]
                    /\ UNCHANGED want
           TimesOut == UNCHANGED <<suspended, saved, blocked, state, want>>
           Cancels == /\ blocked' = [blocked EXCEPT ![t] = m] /\ ~active'[t]
                      /\ want' = [want EXCEPT ![t][Len(want[t])] = MaskSet]
                      /\ UNCHANGED <<suspended, saved, state>>
<1>1. CanRun(t) /\ Apply(SignalBlock(t, m)) /\ UNCHANGED <<wait, frames, env, dead, report>> BY Zenon DEF SignalSuspend
<1>2. Waits \/ TimesOut \/ Cancels
      <2>1. active' = SignalBlock(t, m).active BY <1>1, Zenon DEF Apply
      <2>. QED BY <2>1, Zenon DEF SignalSuspend, MaskSet
<1>3. Masked(t, m) BY <1>1, BlockEffect
<1>4. state[t] = "run" /\ ~suspended[t] /\ ~dead /\ ~stale /\ ~active[t] BY <1>1, Zenon DEF CanRun
<1>5. /\ state \in [Thread -> States] /\ suspended \in [Thread -> BOOLEAN]
      /\ saved \in [Thread -> MaskSet] /\ blocked \in [Thread -> MaskSet]
      BY DEF Types, ThreadTypes
<1>6. /\ state' \in [Thread -> States] /\ \A u \in Thread \ {t} : state'[u] = state[u]
      /\ state'[t] \in {"run", "suspend"} /\ (Waits /\ active'[t] => state'[t] = "run")
      <2>1. CASE TimesOut \/ Cancels
            <3>1. state' = state BY <2>1, Zenon
            <3>2. Waits /\ active'[t] => state'[t] = "run" BY <1>5, Zenon
            <3>. QED BY <1>4, <1>5, <3>1, <3>2
      <2>2. CASE Waits
            <3>1. CASE active'[t]
                  <4>1. state' = [state EXCEPT ![t] = "run"] BY <2>2, <3>1, Zenon
                  <4>. QED BY <1>5, <4>1 DEF States
            <3>2. CASE ~active'[t]
                  <4>1. state' = [state EXCEPT ![t] = "suspend"] BY <2>2, <3>2, Zenon
                  <4>2. state' \in [Thread -> States] /\ (\A u \in Thread \ {t} : state'[u] = state[u]) /\ state'[t] \in {"run", "suspend"}
                        BY <1>5, <4>1 DEF States
                  <4>. QED BY <3>2, <4>2, Zenon
            <3>. QED BY <3>1, <3>2
      <2>. QED BY <1>2, <2>1, <2>2
<1>7. /\ saved' \in [Thread -> MaskSet] /\ blocked' \in [Thread -> MaskSet]
      /\ \A u \in Thread \ {t} : saved'[u] = saved[u] /\ blocked'[u] = blocked[u]
      /\ (Waits => saved'[t] = blocked[t] /\ blocked'[t] = m) /\ (Cancels => blocked'[t] = m)
      <2>1. CASE TimesOut /\ ~Waits /\ ~Cancels BY <1>5, <2>1, Zenon
      <2>2. CASE Waits BY <1>5, <2>2
      <2>3. CASE Cancels /\ ~Waits BY <1>5, <2>3, Zenon
      <2>. QED BY <1>2, <2>1, <2>2, <2>3, Zenon
<1>8. /\ suspended' \in [Thread -> BOOLEAN] /\ \A u \in Thread \ {t} : suspended'[u] = suspended[u]
      /\ Waits => suspended'[t]
      BY <1>2, <1>5, Zenon
<1>9. FrameTypes' /\ \A u \in Thread \ {t} : want'[u] = want[u]
      <2>1. CASE UNCHANGED want BY <1>1, <2>1, Zenon DEF Types, FrameTypes
      <2>2. CASE Cancels
            <3>1. Expects(t, MaskSet) BY <2>2, NewTop
            <3>. QED BY <1>1, <3>1, Zenon DEF Types, FrameTypes, Expects
      <2>. QED BY <1>2, <2>1, <2>2, Zenon
<1>15. Types'
      <2>1. ThreadTypes' BY <1>1, <1>3, <1>6, <1>7, <1>8, Zenon DEF Types, ThreadTypes, Masked
      <2>. QED BY <1>1, <1>3, <1>9, <2>1, Zenon DEF Types, ActionTypes, FlagTypes, Masked, env
<1>10. \A u \in Thread \ {t} : Calm(u)
       <2>1. \A u \in Thread \ {t} : SameMask(u) /\ wait'[u] = wait[u] BY <1>1, <1>7, <1>8, <1>9, Zenon DEF SameMask
       <2>. QED BY <1>3, <1>6, <2>1, Untouched, Zenon DEF Masked
<1>11. ASSUME MaskOK(t) PROVE MaskOK(t)'
       <2>1. UNCHANGED frames BY <1>1, Zenon
       <2>2. CASE Waits BY <1>4, <1>7, <1>8, <1>11, <2>1, <2>2, Zenon DEF MaskOK, Top
       <2>3. CASE TimesOut BY <1>11, <2>1, <2>3, Zenon DEF MaskOK, Top
       <2>4. CASE Cancels
             <3>1. Expects(t, MaskSet) BY <2>4, NewTop
             <3>2. ~suspended'[t] /\ blocked'[t] \in MaskSet BY <1>4, <1>7, <2>4, Zenon
             <3>. QED BY <1>11, <2>1, <3>1, <3>2, Zenon DEF MaskOK, Top, Expects
       <2>. QED BY <1>2, <2>2, <2>3, <2>4, Zenon
<1>12. Gone(t)' BY <1>6 DEF Gone
<1>13. ASSUME Looks(t), Leaves(t) PROVE Looks(t)' /\ Leaves(t)'
       <2>1. state'[t] # "waitinfo" /\ state'[t] # "none" BY <1>6
       <2>2. CASE Waits
             <3>1. Looks(t)' BY <1>3, <1>6, <1>7, <2>2, Zenon DEF Looks, Masked
             <3>2. Leaves(t)' BY <1>3, <1>7, <2>1, <2>2, Zenon DEF Leaves, Masked
             <3>. QED BY <3>1, <3>2
       <2>3. CASE TimesOut
             <3>1. state[t] # "none" BY <1>4
             <3>2. \A s \in Sig : pending'[t][s] # <<>> => s \in blocked[t]
                   BY <1>3, <1>4, <1>13, <3>1, Zenon DEF Masked, Looks, Leaves, Open
             <3>3. Looks(t)' BY <2>3, <3>2, Zenon DEF Looks, Open
             <3>4. Leaves(t)' BY <1>3, <1>13, <2>1, <2>3, <3>1, Zenon DEF Leaves, Masked, NoMore
             <3>. QED BY <3>3, <3>4
       <2>4. CASE Cancels
             <3>1. Looks(t)' BY <1>3, <1>7, <2>4, Zenon DEF Looks, Masked
             <3>2. Leaves(t)' BY <1>3, <1>7, <2>1, <2>4, Zenon DEF Leaves, Masked
             <3>. QED BY <3>1, <3>2
       <2>. QED BY <1>2, <2>2, <2>3, <2>4, Zenon
<1>14. ProcessList /\ StopKept BY <1>3, NothingForProcess, Zenon DEF Masked
<1>. QED BY <1>4, <1>10, <1>11, <1>12, <1>13, <1>14, <1>15, Zenon DEF Quiet

\* The lowest of some signals is one of them.
LEMMA LowestIsIn ==
    ASSUME NEW S \in SUBSET Sig, S # {}
    PROVE  Lowest(S) \in S
<1>1. S \subseteq Nat BY SignalsAssumption
<1>2. PICK x \in S : \A y \in S : ~(<<y, x>> \in OpToRel(<, Nat)) BY <1>1, WFMin, NatLessThanWellFounded, Zenon
<1>3. \A y \in S : ~(y < x) BY <1>1, <1>2 DEF OpToRel
<1>4. \A y \in S : x <= y BY <1>1, <1>3
<1>. QED BY <1>4, Zenon DEF Lowest

\* SignalWaitinfo: takes a signal, or waits for one that nobody has.
LEMMA WaitinfoEffect ==
    ASSUME Types, NEW t \in Thread, NEW w \in MaskSet, SignalWaitinfo(t, w)
    PROVE  /\ Quiet({t}) /\ ~dead /\ ~stale
           /\ MaskOK(t) => MaskOK(t)'
           /\ Gone(t)' /\ (Looks(t) /\ Leaves(t) => Looks(t)' /\ Leaves(t)')
<1> DEFINE q == IF Open(pending, t, Sig \ w) # {} THEN t ELSE prp
           S == Open(pending, q, Sig \ w)
<1>1. CanRun(t) /\ UNCHANGED <<blocked, active, suspended, saved, frames, want, env, stopped, dead, stale, report>>
      BY Zenon DEF SignalWaitinfo
<1>2. \/ S # {} /\ pending' = [pending EXCEPT ![q][Lowest(S)] = pulse_remove(@)] /\ UNCHANGED <<state, wait>>
      \/ /\ S = {} /\ state' = [state EXCEPT ![t] = "waitinfo"] /\ wait' = [wait EXCEPT ![t] = w]
         /\ UNCHANGED pending
      BY Zenon DEF SignalWaitinfo
<1>3. state[t] = "run" /\ ~suspended[t] /\ ~dead /\ ~stale /\ ~active[t] BY <1>1, Zenon DEF CanRun
<1>4. pending \in AllLists BY DEF Types
<1>5. q \in Lists BY ThreadInLists
<1>6. \A u \in Thread : SameMask(u) BY <1>1, Zenon DEF SameMask
<1>7. MaskOK(t) => MaskOK(t)' BY <1>1, Zenon DEF MaskOK, Top
<1>8. CASE S # {} /\ pending' = [pending EXCEPT ![q][Lowest(S)] = pulse_remove(@)] /\ UNCHANGED <<state, wait>>
      <2> DEFINE s == Lowest(S)
                 es == pending[q][s]
      <2>1. s \in S /\ S \subseteq Sig
            <3>1. S \subseteq Sig BY DEF Open
            <3>. QED BY <1>8, <3>1, LowestIsIn
      <2>2. es # <<>> /\ es \in Entries BY <1>4, <1>5, <2>1 DEF Open, AllLists
      <2>3. pulse_remove(es) \in Entries BY <2>2, TakeEntry
      <2>4. pending' = [pending EXCEPT ![q][s] = pulse_remove(es)] BY <1>4, <1>5, <1>8, <2>1 DEF AllLists
      <2> DEFINE e == pulse_remove(es)
      <2>5. e \in Entries /\ pending' = [pending EXCEPT ![q][s] = e] /\ es # <<>> /\ s \in Sig BY <2>1, <2>2, <2>3, <2>4, Zenon
      <2> HIDE DEF e, q, S, s
      <2>6. pending' \in AllLists /\ \A l \in Lists : NoMore(l)
            <3>1. /\ pending' \in AllLists
                  /\ \A l \in Lists, r \in Sig : pending'[l][r] = IF l = q /\ r = s THEN e ELSE pending[l][r]
                  <4>1. e \in Entries /\ s \in Sig BY <2>5, Zenon
                  <4>2. /\ [pending EXCEPT ![q][s] = e] \in AllLists
                        /\ \A l \in Lists, r \in Sig : [pending EXCEPT ![q][s] = e][l][r] = IF l = q /\ r = s THEN e ELSE pending[l][r]
                        BY <1>4, <1>5, <4>1, ChangeEntries
                  <4>. QED BY <2>5, <4>2, Zenon
            <3>2. pending[q][s] # <<>> BY <2>5
            <3>. QED BY <3>1, <3>2, Zenon DEF NoMore
      <2>7. \A u \in Thread : Calm(u) BY <1>1, <1>6, <1>8, <2>6, Untouched, ThreadInLists, Zenon
      <2>8. Types' BY <1>1, <1>8, <2>6, Zenon DEF Types, ThreadTypes, FrameTypes, ActionTypes, FlagTypes, env
      <2>9. Quiet({t}) BY <1>1, <2>6, <2>7, <2>8, NothingForProcess, NothingForStopped, ThreadInLists, Zenon DEF Quiet
      <2>10. Gone(t)' BY <1>3, <1>8 DEF Gone
      <2>. QED BY <1>3, <1>7, <2>7, <2>9, <2>10, CalmKeeps, Zenon DEF Quiet
<1>9. CASE /\ S = {} /\ state' = [state EXCEPT ![t] = "waitinfo"] /\ wait' = [wait EXCEPT ![t] = w]
           /\ UNCHANGED pending
      <2>1. /\ state' \in [Thread -> States] /\ state'[t] = "waitinfo" /\ \A u \in Thread \ {t} : state'[u] = state[u]
            /\ wait' \in [Thread -> MaskSet] /\ wait'[t] = w /\ \A u \in Thread \ {t} : wait'[u] = wait[u]
            BY <1>9 DEF Types, ThreadTypes, States
      <2>2. \A u \in Thread \ {t} : Calm(u) BY <1>1, <1>6, <1>9, <2>1, SameLists, Untouched, ThreadInLists, Zenon
      <2>3. Types' BY <1>1, <1>9, <2>1, Zenon DEF Types, ThreadTypes, FrameTypes, ActionTypes, FlagTypes, env
      <2>4. Quiet({t}) BY <1>1, <1>9, <2>2, <2>3, SameLists, NothingForStopped, Zenon DEF Quiet
      <2>5. Gone(t)' BY <2>1 DEF Gone
      <2>6. state[t] # "none" BY <1>3
      <2>7. Looks(t) => Looks(t)' BY <1>1, <1>3, <1>9, <2>6, Zenon DEF Looks
      <2>8. \A s \in Sig : pending[prp][s] # <<>> => s \notin w BY <1>9 DEF Open
      <2>9. Leaves(t) => Leaves(t)' BY <1>1, <1>9, <2>1, <2>6, <2>8, Zenon DEF Leaves
      <2>. QED BY <1>3, <1>7, <2>4, <2>5, <2>7, <2>9, Zenon
<1>. QED BY <1>2, <1>8, <1>9, Zenon

(* specialret *)

\* SA_NODEFER and SA_RESETHAND leave the signal unblocked while its handler runs; an entry
\* that counts several signals would then stay open without the flag.
SingleOrDeferred == Flags = {} \/ TRUE \notin Repeats

\* The mask that the handler of a signal runs with.
HandlerMask(t, s) == blocked[t] \cup (IF action[s].flags = {} THEN {s} ELSE {}) \cup action[s].mask

\* signal_specret saves the mask on the stack of the handler it starts.
LEMMA HandlerEffect ==
    ASSUME Types, NEW t \in Thread, NEW s \in Open(pending, t, blocked[t]), state[t] = "run", StartHandler(t, s),
           UNCHANGED <<state, wait, stopped, stale, report>>
    PROVE  /\ Quiet({t})
           /\ MaskOK(t) => MaskOK(t)'
           /\ Gone(t)' /\ (SingleOrDeferred => Looks(t)') /\ (Leaves(t) => Leaves(t)')
<1> DEFINE m == HandlerMask(t, s)
           es == pending[t][s]
           e == pulse_remove(es)
<1>1. /\ frames' = [frames EXCEPT ![t] = Append(@, Frame(t))] /\ want' = [want EXCEPT ![t] = Append(@, {m})]
      /\ suspended' = [suspended EXCEPT ![t] = FALSE] /\ saved' = [saved EXCEPT ![t] = {}]
      /\ active' = [active EXCEPT ![t] = KeepsFlag(t, s)]
      /\ pending' = [pending EXCEPT ![t][s] = pulse_remove(@)]
      /\ blocked' = [blocked EXCEPT ![t] = m] /\ UNCHANGED dead
      /\ \/ action' = [action EXCEPT ![s].handler = "dfl"]
         \/ action' = action
      BY Zenon DEF StartHandler, HandlerMask
<1>2. s \in Sig /\ s \notin blocked[t] /\ es # <<>> BY DEF Open
<1>3. pending \in AllLists /\ es \in Entries BY <1>2, ThreadInLists DEF Types, AllLists
<1>4. e \in Entries /\ (TRUE \notin Repeats => e = Tail(es)) BY <1>2, <1>3, TakeEntry
<1>5. /\ action[s] \in [handler : {"dfl", "ign", "fn"}, flags : SUBSET Flags, mask : MaskSet]
      /\ blocked \in [Thread -> MaskSet] /\ saved \in [Thread -> MaskSet]
      BY <1>2 DEF Types, ActionTypes, ThreadTypes
<1>6. m \in MaskSet /\ blocked[t] \subseteq m /\ (Flags = {} => s \in m) BY <1>2, <1>5 DEF MaskSet, HandlerMask
<1>7. pending' = [pending EXCEPT ![t][s] = e] BY <1>1, <1>2, <1>3, ThreadInLists DEF AllLists
<1> HIDE DEF m, e
<1>8. /\ pending' \in AllLists
      /\ \A l \in Lists, r \in Sig : pending'[l][r] = IF l = t /\ r = s THEN e ELSE pending[l][r]
      <2>1. t \in Lists BY ThreadInLists
      <2>2. /\ [pending EXCEPT ![t][s] = e] \in AllLists
            /\ \A l \in Lists, r \in Sig : [pending EXCEPT ![t][s] = e][l][r] = IF l = t /\ r = s THEN e ELSE pending[l][r]
            BY <1>2, <1>3, <1>4, <2>1, ChangeEntries
      <2>. QED BY <1>7, <2>2, Zenon
<1>9. \A l \in Lists : NoMore(l) BY <1>2, <1>8, Zenon DEF NoMore
<1>10. /\ blocked' \in [Thread -> MaskSet] /\ blocked'[t] = m /\ saved' \in [Thread -> MaskSet]
       /\ \A u \in Thread \ {t} : blocked'[u] = blocked[u] /\ saved'[u] = saved[u]
       <2>1. {} \in MaskSet BY DEF MaskSet
       <2>. QED BY <1>1, <1>5, <1>6, <2>1
<1>11. /\ suspended' \in [Thread -> BOOLEAN] /\ ~suspended'[t] /\ \A u \in Thread \ {t} : suspended'[u] = suspended[u]
       BY <1>1, Zenon DEF Types, ThreadTypes
<1>12. /\ active' \in [Thread -> BOOLEAN] /\ active'[t] = KeepsFlag(t, s) /\ \A u \in Thread \ {t} : active'[u] = active[u]
       <2>1. KeepsFlag(t, s) \in BOOLEAN BY Zenon DEF KeepsFlag
       <2>. QED BY <1>1, <2>1, Zenon DEF Types, ThreadTypes
<1>13. /\ want[t] \in Seq(SUBSET MaskSet) /\ frames[t] \in Seq(MaskSet) /\ Len(want[t]) = Len(frames[t]) + 1
       /\ want \in [Thread -> Seq(SUBSET MaskSet)] /\ frames \in [Thread -> Seq(MaskSet)]
       BY DEF Types, FrameTypes
<1>14. Frame(t) \in MaskSet BY <1>5, Zenon DEF Frame
<1>15. /\ frames' \in [Thread -> Seq(MaskSet)] /\ want' \in [Thread -> Seq(SUBSET MaskSet)]
       /\ \A u \in Thread \ {t} : want'[u] = want[u] /\ frames'[u] = frames[u]
       /\ want'[t] = Append(want[t], {m}) /\ frames'[t] = Append(frames[t], Frame(t))
       BY <1>1, <1>6, <1>13, <1>14
<1>16. /\ Len(want'[t]) = Len(want[t]) + 1 /\ Len(frames'[t]) = Len(frames[t]) + 1
       /\ want'[t][Len(want'[t])] = {m}
       /\ \A i \in 1 .. Len(want[t]) : want'[t][i] = want[t][i]
       /\ \A i \in 1 .. Len(frames[t]) : frames'[t][i] = frames[t][i]
       /\ frames'[t][Len(want[t])] = Frame(t)
       BY <1>6, <1>13, <1>14, <1>15
<1>17. Types'
       <2>1. FrameTypes'
             <3>1. \A u \in Thread : Len(want'[u]) = Len(frames'[u]) + 1 BY <1>13, <1>15, <1>16 DEF Types, FrameTypes
             <3>. QED BY <1>15, <3>1, Zenon DEF FrameTypes
       <2>2. ThreadTypes' BY <1>10, <1>11, <1>12, Zenon DEF Types, ThreadTypes
       <2>3. ActionTypes' BY <1>1, <1>2 DEF Types, ActionTypes
       <2>. QED BY <1>1, <1>8, <2>1, <2>2, <2>3, Zenon DEF Types, FlagTypes
<1>18. \A u \in Thread \ {t} : Calm(u)
       <2>1. \A u \in Thread \ {t} : SameMask(u) BY <1>10, <1>11, <1>15, Zenon DEF SameMask
       <2>. QED BY <1>9, <1>12, <2>1, Untouched, ThreadInLists, Zenon
<1>19. ASSUME MaskOK(t) PROVE MaskOK(t)'
       <2>1. Frame(t) \in want[t][Len(want[t])] BY <1>19, Zenon DEF MaskOK, Frame, Top
       <2>2. \A i \in 1 .. Len(frames'[t]) : frames'[t][i] \in want'[t][i]
             <3>1. \A i \in 1 .. Len(frames'[t]) : i \in 1 .. Len(want[t]) /\ (i \in 1 .. Len(frames[t]) \/ i = Len(want[t]))
                   BY <1>13, <1>16
             <3>. QED BY <1>16, <1>19, <2>1, <3>1, Zenon DEF MaskOK
       <2>. QED BY <1>10, <1>11, <1>16, <2>2, Zenon DEF MaskOK, Top
<1>20. Gone(t)' BY DEF Gone
<1>21. ASSUME SingleOrDeferred PROVE Looks(t)'
       <2>1. SUFFICES ASSUME Open(pending', t, m) # {} PROVE KeepsFlag(t, s)
             BY <1>10, <1>12, Zenon DEF Looks
       <2>2. PICK r \in Sig \ m : pending'[t][r] # <<>> BY <2>1, Zenon DEF Open
       <2>3. CASE r # s
             <3>1. r \in Open(pending, t, blocked[t]) BY <1>6, <1>8, <2>2, <2>3, ThreadInLists DEF Open
             <3>. QED BY <2>3, <3>1, Zenon DEF KeepsFlag
       <2>4. CASE r = s
             <3>1. TRUE \notin Repeats BY <1>6, <1>21, <2>2, <2>4, Zenon DEF SingleOrDeferred
             <3>2. Tail(es) # <<>> BY <1>4, <1>8, <2>2, <2>4, <3>1, ThreadInLists, Zenon
             <3>3. Len(es) > 1 BY <1>2, <1>3, <3>2 DEF Entries
             <3>. QED BY <3>3, Zenon DEF KeepsFlag
       <2>. QED BY <2>3, <2>4
<1>22. ASSUME Leaves(t) PROVE Leaves(t)'
       <2>1. "run" # "waitinfo" /\ "run" # "none" OBVIOUS
       <2>. QED BY <1>6, <1>9, <1>10, <1>22, <2>1, ThreadInLists DEF Leaves, NoMore
<1>. QED BY <1>9, <1>17, <1>18, <1>19, <1>20, <1>21, <1>22, NothingForProcess, NothingForStopped, ThreadInLists, Zenon DEF Quiet

\* signal_specret.
LEMMA SpecretEffect ==
    ASSUME Types, NEW t \in Thread, signal_specret(t)
    PROVE  /\ Quiet({t}) /\ ~dead /\ ~stale
           /\ MaskOK(t) => MaskOK(t)'
           /\ Gone(t)' /\ (SingleOrDeferred /\ Looks(t) => Looks(t)') /\ (Leaves(t) => Leaves(t)')
<1> DEFINE S == Open(pending, t, blocked[t])
<1>1. state[t] = "run" /\ ~dead /\ ~stale /\ UNCHANGED <<state, wait, stopped, stale, report>>
      BY Zenon DEF signal_specret
<1>2. Gone(t)' BY <1>1 DEF Gone
<1>3. CASE /\ S = {} /\ active' = [active EXCEPT ![t] = FALSE]
           /\ UNCHANGED <<pending, blocked, suspended, saved, frames, want, env, dead>>
      <2>1. /\ active' \in [Thread -> BOOLEAN] /\ active'[t] = FALSE /\ \A u \in Thread \ {t} : active'[u] = active[u]
            BY <1>3, Zenon DEF Types, ThreadTypes
      <2>2. \A u \in Thread : SameMask(u) BY <1>3, Zenon DEF SameMask
      <2>3. \A u \in Thread : active'[u] = active[u] \/ active'[u] = (active[u] /\ Open(pending', u, blocked[u]) # {})
            BY <1>3, <2>1, Zenon
      <2>4. \A u \in Thread : Calm(u) BY <1>1, <1>3, <2>2, <2>3, SameLists, Untouched, ThreadInLists, Zenon
      <2>5. Types' BY <1>1, <1>3, <2>1, Zenon DEF Types, ThreadTypes, FrameTypes, ActionTypes, FlagTypes, env
      <2>6. ProcessList /\ StopKept BY <1>1, <1>3, SameLists, NothingForStopped, Zenon
      <2>. QED BY <1>1, <1>2, <2>4, <2>5, <2>6, CalmKeeps, Zenon DEF Quiet
<1>4. CASE S # {} /\ StartHandler(t, Lowest(S))
      <2>1. Lowest(S) \in S
            <3>1. S \in SUBSET Sig BY DEF Open
            <3>. QED BY <1>4, <3>1, LowestIsIn
      <2>. QED BY <1>1, <1>2, <1>4, <2>1, HandlerEffect, Zenon
<1>5. CASE dead' = TRUE /\ UNCHANGED <<pending, blocked, suspended, saved, active, frames, want, env>>
      <2>1. \A u \in Thread : SameMask(u) BY <1>5, Zenon DEF SameMask
      <2>2. \A u \in Thread : Calm(u) BY <1>1, <1>5, <2>1, SameLists, Untouched, ThreadInLists, Zenon
      <2>3. Types' BY <1>1, <1>5, Zenon DEF Types, ThreadTypes, FrameTypes, ActionTypes, FlagTypes, env
      <2>4. ProcessList /\ StopKept BY <1>1, <1>5, SameLists, NothingForStopped, Zenon
      <2>. QED BY <1>1, <1>2, <2>2, <2>3, <2>4, CalmKeeps, Zenon DEF Quiet
<1>. QED BY <1>3, <1>4, <1>5, Zenon DEF signal_specret

\* specialret puts the mask of a thread back whose SignalSuspend has ended without a signal.
Unmissed(t) == Open(pending, t, saved[t]) = {} /\ Open(pending, prp, saved[t]) = {}

\* The mask that it puts back is the expected one.
LEMMA ResumeEffect ==
    ASSUME Types, NEW t \in Thread, sigsuspend_specret(t)
    PROVE  /\ Quiet({t}) /\ ~dead /\ ~stale
           /\ MaskOK(t) => MaskOK(t)'
           /\ Gone(t)' /\ (Unmissed(t) => Looks(t)' /\ Leaves(t)')
<1>1. /\ state[t] = "run" /\ ~dead /\ ~stale /\ suspended[t]
      /\ blocked' = [blocked EXCEPT ![t] = saved[t]]
      /\ suspended' = [suspended EXCEPT ![t] = FALSE] /\ saved' = [saved EXCEPT ![t] = {}]
      /\ UNCHANGED <<pending, active, state, mem, env, stopped, dead, stale, report>>
      BY Zenon DEF sigsuspend_specret
<1>2. /\ blocked' \in [Thread -> MaskSet] /\ blocked'[t] = saved[t] /\ saved' \in [Thread -> MaskSet]
      /\ \A u \in Thread \ {t} : blocked'[u] = blocked[u] /\ saved'[u] = saved[u]
      <2>1. {} \in MaskSet BY DEF MaskSet
      <2>. QED BY <1>1, <2>1 DEF Types, ThreadTypes
<1>3. /\ suspended' \in [Thread -> BOOLEAN] /\ ~suspended'[t] /\ \A u \in Thread \ {t} : suspended'[u] = suspended[u]
      BY <1>1, Zenon DEF Types, ThreadTypes
<1>4. Types' BY <1>1, <1>2, <1>3, Zenon DEF Types, ThreadTypes, FrameTypes, ActionTypes, FlagTypes, env, mem
<1>5. \A u \in Thread \ {t} : Calm(u)
      <2>1. \A u \in Thread \ {t} : SameMask(u) /\ wait'[u] = wait[u] BY <1>1, <1>2, <1>3, Zenon DEF SameMask, mem
      <2>. QED BY <1>1, <2>1, SameLists, Untouched, ThreadInLists, Zenon
<1>6. MaskOK(t) => MaskOK(t)'
      <2>1. UNCHANGED <<frames, want>> BY <1>1, Zenon DEF mem
      <2>. QED BY <1>1, <1>2, <1>3, <2>1, Zenon DEF MaskOK, Top
<1>7. Gone(t)' BY <1>1 DEF Gone
<1>8. ASSUME Unmissed(t) PROVE Looks(t)' /\ Leaves(t)'
      <2>1. Looks(t)' BY <1>1, <1>2, <1>8, Zenon DEF Looks, Unmissed
      <2>2. \A s \in Sig : pending[prp][s] # <<>> => s \in saved[t] BY <1>8, Zenon DEF Unmissed, Open
      <2>3. state'[t] # "waitinfo" BY <1>1
      <2>4. Leaves(t)' BY <1>1, <1>2, <2>2, <2>3, Zenon DEF Leaves
      <2>. QED BY <2>1, <2>4
<1>. QED BY <1>1, <1>4, <1>5, <1>6, <1>7, <1>8, SameLists, NothingForStopped, Zenon DEF Quiet

\* The thread waits for something else.
LEMMA BlockThread ==
    ASSUME Types, NEW t \in Thread, Block(t)
    PROVE  /\ Quiet({t}) /\ ~dead /\ ~stale
           /\ MaskOK(t) => MaskOK(t)'
           /\ Gone(t)' /\ (Looks(t) => Looks(t)') /\ (Leaves(t) => Leaves(t)')
<1>1. /\ CanRun(t) /\ state' = [state EXCEPT ![t] = "blocked"]
      /\ UNCHANGED <<pending, blocked, active, suspended, saved, mem, env, stopped, dead, stale, report>>
      BY Zenon DEF Block
<1>2. state[t] = "run" /\ ~active[t] /\ ~dead /\ ~stale BY <1>1, Zenon DEF CanRun
<1>3. state' \in [Thread -> States] /\ state'[t] = "blocked" /\ \A u \in Thread \ {t} : state'[u] = state[u]
      BY <1>1 DEF Types, ThreadTypes, States
<1>4. \A u \in Thread : SameMask(u) /\ wait'[u] = wait[u] BY <1>1, Zenon DEF SameMask, mem
<1>5. \A u \in Thread \ {t} : Calm(u) BY <1>1, <1>3, <1>4, SameLists, Untouched, ThreadInLists, Zenon
<1>6. Types' BY <1>1, <1>3, Zenon DEF Types, ThreadTypes, FrameTypes, ActionTypes, FlagTypes, env, mem
<1>7. MaskOK(t) => MaskOK(t)' BY <1>4, Zenon DEF MaskOK, Top, SameMask
<1>8. Gone(t)' BY <1>3 DEF Gone
<1>9. state[t] # "none" /\ state'[t] # "waitinfo" BY <1>2, <1>3
<1>10. Looks(t) => Looks(t)' BY <1>1, <1>2, <1>9, Zenon DEF Looks
<1>11. Leaves(t) => Leaves(t)' BY <1>1, <1>9, Zenon DEF Leaves
<1>. QED BY <1>1, <1>2, <1>5, <1>6, <1>7, <1>8, <1>10, <1>11, SameLists, NothingForStopped, Zenon DEF Quiet

\* A thread is created; it had nothing.
LEMMA CreateEffect ==
    ASSUME Types, NEW c \in Thread, NEW t \in Thread, Gone(t), thread_create(c, t)
    PROVE  /\ Quiet({t}) /\ ~dead /\ ~stale /\ MaskOK(t)' /\ Gone(t)' /\ Looks(t)' /\ (Leaves(c) => Leaves(t)')
<1>1. /\ CanRun(c) /\ state[t] = "none" /\ state' = [state EXCEPT ![t] = "run"]
      /\ blocked' = [blocked EXCEPT ![t] = blocked[c]] /\ want' = [want EXCEPT ![t] = <<{blocked[c]}>>]
      /\ UNCHANGED <<pending, active, suspended, saved, wait, frames, env, stopped, dead, stale, report>>
      BY Zenon DEF thread_create
<1>2. ~dead /\ ~stale /\ state[c] = "run" BY <1>1, Zenon DEF CanRun
<1>3. state' \in [Thread -> States] /\ state'[t] = "run" /\ \A u \in Thread \ {t} : state'[u] = state[u]
      BY <1>1 DEF Types, ThreadTypes, States
<1>4. /\ blocked' \in [Thread -> MaskSet] /\ blocked'[t] = blocked[c] /\ blocked[c] \in MaskSet
      /\ \A u \in Thread \ {t} : blocked'[u] = blocked[u]
      BY <1>1 DEF Types, ThreadTypes
<1>5. /\ want' \in [Thread -> Seq(SUBSET MaskSet)] /\ want'[t] = <<{blocked[c]}>> /\ \A u \in Thread \ {t} : want'[u] = want[u]
      BY <1>1, <1>4 DEF Types, FrameTypes
<1>6. (\A s \in Sig : pending[t][s] = <<>>) /\ ~active[t] /\ ~suspended[t] /\ frames[t] = <<>> BY <1>1, Zenon DEF Gone
<1>7. Types'
      <2>1. FrameTypes'
            <3>1. \A u \in Thread : Len(want'[u]) = Len(frames'[u]) + 1 BY <1>1, <1>5, <1>6 DEF Types, FrameTypes
            <3>. QED BY <1>1, <1>5, <3>1, Zenon DEF Types, FrameTypes
      <2>. QED BY <1>1, <1>3, <1>4, <2>1, Zenon DEF Types, ThreadTypes, ActionTypes, FlagTypes, env
<1>8. \A u \in Thread \ {t} : Calm(u)
      <2>1. \A u \in Thread \ {t} : SameMask(u) BY <1>1, <1>4, <1>5, Zenon DEF SameMask
      <2>. QED BY <1>1, <1>3, <2>1, SameLists, Untouched, ThreadInLists, Zenon
<1>9. MaskOK(t)'
      <2>1. ~suspended'[t] /\ frames'[t] = <<>> BY <1>1, <1>6, Zenon
      <2>2. blocked'[t] \in want'[t][Len(want'[t])] BY <1>4, <1>5
      <2>3. \A i \in 1 .. Len(frames'[t]) : frames'[t][i] \in want'[t][i] BY <2>1
      <2>. QED BY <2>1, <2>2, <2>3, Zenon DEF MaskOK, Top
<1>10. Gone(t)' BY <1>3 DEF Gone
<1>11. Looks(t)' BY <1>1, <1>6, Zenon DEF Looks, Open
<1>12. Leaves(c) => Leaves(t)'
       <2>1. state[c] # "none" /\ state'[t] # "waitinfo" BY <1>2, <1>3
       <2>. QED BY <1>1, <1>4, <2>1, Zenon DEF Leaves
<1>. QED BY <1>1, <1>2, <1>7, <1>8, <1>9, <1>10, <1>11, <1>12, SameLists, NothingForStopped, Zenon DEF Quiet

\* A thread ends, and leaves nothing.
LEMMA DestroyEffect ==
    ASSUME Types, NEW t \in Thread, thread_destroy(t)
    PROVE  Quiet({t}) /\ ~dead /\ ~stale /\ MaskOK(t)' /\ Gone(t)' /\ Looks(t)' /\ Leaves(t)'
<1>1. /\ CanRun(t) /\ dead' \in BOOLEAN /\ state' = [state EXCEPT ![t] = "none"]
      /\ pending' = [q \in Lists |-> IF q = t \/ Live = {t} THEN Nothing ELSE pending[q]]
      /\ blocked' = [blocked EXCEPT ![t] = Sig]
      /\ frames' = [frames EXCEPT ![t] = <<>>] /\ want' = [want EXCEPT ![t] = <<{Sig}>>]
      /\ saved' = [saved EXCEPT ![t] = {}] /\ wait' = [wait EXCEPT ![t] = {}]
      /\ UNCHANGED <<active, suspended, env, stopped, stale, report>>
      BY Zenon DEF thread_destroy
<1>2. ~dead /\ ~stale /\ ~active[t] /\ ~suspended[t] BY <1>1, Zenon DEF CanRun
<1>3. state' \in [Thread -> States] /\ state'[t] = "none" /\ \A u \in Thread \ {t} : state'[u] = state[u]
      BY <1>1 DEF Types, ThreadTypes, States
<1>4. {} \in MaskSet /\ Sig \in MaskSet BY DEF MaskSet
<1>5. /\ blocked' \in [Thread -> MaskSet] /\ blocked'[t] = Sig /\ saved' \in [Thread -> MaskSet] /\ wait' \in [Thread -> MaskSet]
      /\ \A u \in Thread \ {t} : blocked'[u] = blocked[u] /\ saved'[u] = saved[u] /\ wait'[u] = wait[u]
      BY <1>1, <1>4 DEF Types, ThreadTypes
<1>6. /\ want' \in [Thread -> Seq(SUBSET MaskSet)] /\ want'[t] = <<{Sig}>> /\ frames' \in [Thread -> Seq(MaskSet)] /\ frames'[t] = <<>>
      /\ \A u \in Thread \ {t} : want'[u] = want[u] /\ frames'[u] = frames[u]
      BY <1>1, <1>4 DEF Types, FrameTypes
<1>7. /\ pending' \in AllLists /\ \A q \in Lists, s \in Sig : pending'[q][s] = <<>> \/ pending'[q][s] = pending[q][s]
      /\ \A s \in Sig : pending'[t][s] = <<>>
      BY <1>1, ThreadInLists DEF Types, AllLists, Nothing, Entries
<1>8. \A q \in Lists : NoMore(q) BY <1>7, Zenon DEF NoMore
<1>9. Types'
      <2>1. FrameTypes'
            <3>1. Len(want'[t]) = 1 /\ Len(frames'[t]) = 0 BY <1>6
            <3>2. \A u \in Thread \ {t} : Len(want'[u]) = Len(frames'[u]) + 1 BY <1>6, Zenon DEF Types, FrameTypes
            <3>3. Len(want'[t]) = Len(frames'[t]) + 1 BY <3>1
            <3>. QED BY <1>6, <3>2, <3>3, Zenon DEF FrameTypes
      <2>. QED BY <1>1, <1>3, <1>5, <1>7, <2>1, Zenon DEF Types, ThreadTypes, ActionTypes, FlagTypes, env
<1>10. \A u \in Thread \ {t} : Calm(u)
       <2>1. \A u \in Thread \ {t} : SameMask(u) BY <1>1, <1>5, <1>6, Zenon DEF SameMask
       <2>. QED BY <1>1, <1>3, <1>5, <1>8, <2>1, Untouched, ThreadInLists, Zenon
<1>11. MaskOK(t)'
       <2>1. ~suspended'[t] BY <1>1, <1>2, Zenon
       <2>2. blocked'[t] \in want'[t][Len(want'[t])] BY <1>5, <1>6
       <2>3. \A i \in 1 .. Len(frames'[t]) : frames'[t][i] \in want'[t][i] BY <1>6
       <2>. QED BY <2>1, <2>2, <2>3, Zenon DEF MaskOK, Top
<1>12. Gone(t)' BY <1>1, <1>2, <1>6, <1>7, Zenon DEF Gone
<1>13. Looks(t)' /\ Leaves(t)' BY <1>3, Zenon DEF Looks, Leaves
<1>. QED BY <1>1, <1>2, <1>8, <1>9, <1>10, <1>11, <1>12, <1>13, NothingForProcess, NothingForStopped, ThreadInLists, Zenon DEF Quiet

(* SIGCONT and the signals that stop *)

\* The other signals of all lists stay.
LEMMA OtherEntries ==
    ASSUME NEW p \in AllLists, NEW l \in Lists, NEW s \in Sig, NEW r \in Sig, r # s, NEW x, NEW q \in Lists
    PROVE  [p EXCEPT ![l][s] = x][q][r] = p[q][r]
BY DEF AllLists

\* What a signal that is sent does to the SIGCONT in the lists.
KillsCont(s) ==
    /\ stopped' => stopped \/ (s = SIGTSTP /\ (SIGCONT \in Sig => \A q \in Lists : pending'[q][SIGCONT] = <<>>))
    /\ s # SIGCONT /\ SIGCONT \in Sig => \A q \in Lists : pending'[q][SIGCONT] = <<>> \/ pending'[q][SIGCONT] = pending[q][SIGCONT]
    /\ s = SIGCONT => ~stopped' \/ UNCHANGED <<pending, stopped>>

\* SIGTSTP and SIGCONT are two signals.
LEMMA StopNotCont == SIGTSTP # SIGCONT
BY SignalsAssumption

\* SIGCONT removes the stop signals.
LEMMA ContRemovesStop == Removes(SIGCONT) = {SIGTSTP}
BY StopNotCont, Zenon DEF Removes

\* signal_kill_thread continues the process, unless the thread waits for SIGCONT.
LEMMA KillThreadCont ==
    ASSUME Types, NEW t \in Live, NEW s \in Sig, NEW same \in Repeats, NEW fail \in Fails,
           signal_kill_thread(t, s, same, fail)
    PROVE  KillsCont(s) /\ (s = SIGCONT => NotStopped' \/ (state[t] = "waitinfo" /\ s \in wait[t]))
<1> DEFINE p == signal_remove(pending, Removes(s) \cap Sig)
           es == p[t][s]
           e == pulse_add(es, s, same)
<1>1. CASE Ignored(s) /\ s # SIGCONT /\ UNCHANGED <<pending, stopped>> BY <1>1, Zenon DEF KillsCont
<1>2. CASE state[t] = "waitinfo" /\ s \in wait[t] /\ UNCHANGED <<pending, stopped>> BY <1>2, Zenon DEF KillsCont
<1>3. CASE stopped' = Stops(s) /\ (pending' = p \/ pending' = [p EXCEPT ![t][s] = e])
      <2>1. t \in Lists /\ pending \in AllLists BY ThreadInLists DEF Live, Types
      <2>2. p \in AllLists /\ \A q \in Lists, r \in Sig : p[q][r] = IF r \in Removes(s) THEN <<>> ELSE pending[q][r]
            BY <2>1, RemovedLists
      <2> HIDE DEF p, e
      <2>3. SIGCONT \in Sig /\ s # SIGCONT => \A q \in Lists : pending'[q][SIGCONT] = p[q][SIGCONT]
            <3>1. SUFFICES ASSUME SIGCONT \in Sig, s # SIGCONT, NEW q \in Lists PROVE pending'[q][SIGCONT] = p[q][SIGCONT] OBVIOUS
            <3>2. [p EXCEPT ![t][s] = e][q][SIGCONT] = p[q][SIGCONT] BY <2>1, <2>2, <3>1, OtherEntries
            <3>. QED BY <1>3, <3>2, Zenon
      <2>4. CASE s = SIGCONT
            <3>1. ~stopped' BY <1>3, <2>4, StopNotCont, Zenon DEF Stops
            <3>2. ASSUME SIGTSTP \in Sig, NEW q \in Lists PROVE pending'[q][SIGTSTP] = <<>>
                  <4>1. p[q][SIGTSTP] = <<>> BY <2>2, <2>4, <3>2, ContRemovesStop
                  <4>2. [p EXCEPT ![t][s] = e][q][SIGTSTP] = p[q][SIGTSTP] BY <2>1, <2>2, <2>4, <3>2, StopNotCont, OtherEntries
                  <4>. QED BY <1>3, <4>1, <4>2, Zenon
            <3>. QED BY <2>4, <3>1, <3>2, Zenon DEF KillsCont, NotStopped
      <2>5. CASE s = SIGTSTP
            <3>1. SIGCONT \in Removes(s) BY <2>5, StopRemovesCont
            <3>2. SIGCONT \in Sig => \A q \in Lists : pending'[q][SIGCONT] = <<>> BY <2>2, <2>3, <2>5, <3>1, StopNotCont, Zenon
            <3>. QED BY <2>5, <3>2, StopNotCont, Zenon DEF KillsCont
      <2>6. CASE s # SIGCONT /\ s # SIGTSTP
            <3>1. stopped' = stopped BY <1>3, <2>6, Zenon DEF Stops
            <3>. QED BY <2>2, <2>3, <2>6, <3>1, Zenon DEF KillsCont
      <2>. QED BY <2>4, <2>5, <2>6
<1>. QED BY <1>1, <1>2, <1>3, Zenon DEF signal_kill_thread

\* signal_kill_process does so too.
LEMMA KillProcessCont ==
    ASSUME Types, NEW s \in Sig, NEW same \in Repeats, NEW fail \in Fails,
           signal_kill_process(s, same, fail)
    PROVE  KillsCont(s) /\ (s = SIGCONT => NotStopped' \/ \E t \in Thread : state[t] = "waitinfo" /\ s \in wait[t])
<1> DEFINE R == IF s = SIGCONT THEN Removes(s) ELSE {}
           p == signal_remove(pending, R \cap Sig)
           es == p[prp][s]
           e == pulse_add(es, s, same)
<1>1. CASE \E t \in Takers(s) : signal_kill_thread(t, s, same, fail)
      <2>1. PICK t \in Takers(s) : signal_kill_thread(t, s, same, fail) BY <1>1
      <2>2. t \in Live /\ t \in Thread BY DEF Takers, Live
      <2>. QED BY <2>1, <2>2, KillThreadCont, Zenon
<1>2. CASE s # SIGCONT /\ UNCHANGED <<pending, stopped>> BY <1>2, Zenon DEF KillsCont
<1>3. CASE /\ stopped' = IF s = SIGCONT THEN FALSE ELSE stopped
           /\ pending' = p \/ pending' = [p EXCEPT ![prp][s] = e]
      <2>1. prp \in Lists /\ pending \in AllLists BY ThreadInLists DEF Types
      <2>2. CASE s = SIGCONT
            <3>1. p \in AllLists /\ \A q \in Lists, r \in Sig : p[q][r] = IF r \in Removes(s) THEN <<>> ELSE pending[q][r]
                  BY <2>1, <2>2, RemovedLists
            <3> HIDE DEF p, e
            <3>2. ASSUME SIGTSTP \in Sig, NEW q \in Lists PROVE pending'[q][SIGTSTP] = <<>>
                  <4>1. p[q][SIGTSTP] = <<>> BY <2>2, <3>1, <3>2, ContRemovesStop
                  <4>2. [p EXCEPT ![prp][s] = e][q][SIGTSTP] = p[q][SIGTSTP] BY <2>1, <2>2, <3>1, <3>2, StopNotCont, OtherEntries
                  <4>. QED BY <1>3, <4>1, <4>2, Zenon
            <3>. QED BY <1>3, <2>2, <3>2, Zenon DEF KillsCont, NotStopped
      <2>3. CASE s # SIGCONT
            <3>1. R = {} BY <2>3, Zenon
            <3>2. p \in AllLists /\ \A q \in Lists, r \in Sig : p[q][r] = pending[q][r]
                  <4> HIDE DEF R
                  <4>. QED BY <2>1, <3>1, RemovedLists
            <3> HIDE DEF p, e
            <3>3. SIGCONT \in Sig => \A q \in Lists : pending'[q][SIGCONT] = p[q][SIGCONT]
                  <4>1. SUFFICES ASSUME SIGCONT \in Sig, NEW q \in Lists PROVE pending'[q][SIGCONT] = p[q][SIGCONT] OBVIOUS
                  <4>2. [p EXCEPT ![prp][s] = e][q][SIGCONT] = p[q][SIGCONT] BY <2>1, <2>3, <3>2, <4>1, OtherEntries
                  <4>. QED BY <1>3, <4>2, Zenon
            <3>. QED BY <1>3, <2>3, <3>2, <3>3, Zenon DEF KillsCont
      <2>. QED BY <2>2, <2>3
<1>. QED BY <1>1, <1>2, <1>3, Zenon DEF signal_kill_process

\* No thread waits in SignalWaitinfo for SIGCONT: it would get the signal instead.
NobodyWaits == \A t \in Thread : ~(state[t] = "waitinfo" /\ SIGCONT \in wait[t])

\* SignalKill, for all threads.
LEMMA KillQuiet ==
    ASSUME Types, NEW s \in Sig, SignalKill(s)
    PROVE  Quiet({}) /\ ~dead /\ ~stale /\ (s = SIGCONT /\ NobodyWaits => NotStopped')
<1>1. PICK same \in Repeats, fail \in Fails :
        signal_kill_process(s, same, fail) \/ \E t \in Live : signal_kill_thread(t, s, same, fail)
      BY Zenon DEF SignalKill
<1>2. KillsCont(s) /\ (s = SIGCONT => NotStopped' \/ \E t \in Thread : state[t] = "waitinfo" /\ s \in wait[t])
      BY <1>1, KillProcessCont, KillThreadCont, Zenon DEF Live
<1>3. StopKept BY <1>2, Zenon DEF KillsCont, StopKept, StoppedWithoutCont
<1>. QED BY <1>2, <1>3, KillCalm, Zenon DEF Quiet, NobodyWaits
-----------------------------------------------------------------------------
(***************************************************************************)
(* The invariants of all threads.                                          *)
(***************************************************************************)
MasksOK == \A t \in Thread : MaskOK(t)
Remembered == ~dead /\ ~stale => \A t \in Thread : Looks(t) /\ Leaves(t)

\* Nobody changes the mask of another thread that is in SignalSuspend: the mask saved there
\* would come back.
LeftAlone == \A c \in Thread, t \in Thread, m \in SUBSET Sig :
    "foreign" \in Calls /\ c # t /\ SignalProcmask(c, t, m) => ~suspended[t]

\* A thread whose SignalSuspend ends without a signal has none that its old mask lets through.
NothingMissed == \A t \in Thread : sigsuspend_specret(t) => Unmissed(t)

\* What one step does, whichever it is.
Kept(t) ==
    /\ Quiet({t}) /\ ~dead /\ ~stale
    /\ (LeftAlone /\ MasksOK => MaskOK(t)') /\ Gone(t)'
    /\ (NothingMissed /\ SingleOrDeferred /\ (\A u \in Thread : Looks(u) /\ Leaves(u)) => Looks(t)' /\ Leaves(t)')

\* A step that leaves all threads alone.
LEMMA QuietKept ==
    ASSUME BaseInv, NEW t \in Thread, Quiet({}), ~dead, ~stale
    PROVE  Kept(t)
<1>1. Calm(t) /\ ProcessList /\ Gone(t) BY Zenon DEF Quiet, BaseInv
<1>2. Quiet({t}) BY Zenon DEF Quiet
<1>. QED BY <1>1, <1>2, CalmKeeps, Zenon DEF Kept, MasksOK

\* A call of thread c, on the thread that it changes.
LEMMA CallKept ==
    ASSUME BaseInv, NEW c \in Thread, ThreadCall(c)
    PROVE  \E t \in Thread : Kept(t)
<1>1. Types /\ \A t \in Thread : Gone(t) BY DEF BaseInv
<1>2. ASSUME NEW m \in SUBSET Sig, NEW t \in Thread, t = c \/ "foreign" \in Calls, SignalProcmask(c, t, m) PROVE Kept(t)
      <2>1. m \in MaskSet BY DEF MaskSet
      <2>2. t = c => ~suspended[t] BY <1>2, Zenon DEF SignalProcmask, CanRun
      <2>3. LeftAlone => ~suspended[t] BY <1>2, <2>2, Zenon DEF LeftAlone
      <2>. QED BY <1>1, <1>2, <2>1, <2>3, ProcmaskEffect, Zenon DEF Kept, MasksOK
<1>3. ASSUME NEW m \in SUBSET Sig, SignalSuspend(c, m) PROVE Kept(c)
      BY <1>1, <1>3, SuspendEffect, Zenon DEF Kept, MasksOK, MaskSet
<1>4. ASSUME NEW m \in SUBSET Sig, SignalWaitinfo(c, m) PROVE Kept(c)
      BY <1>1, <1>4, WaitinfoEffect, Zenon DEF Kept, MasksOK, MaskSet
<1>5. ASSUME NEW s \in Sig, NEW f \in SUBSET Flags, NEW m \in Masks, NEW q,
             SignalAction(c, s, [handler |-> "fn", flags |-> f, mask |-> m], q)
      PROVE  Kept(c)
      <2>1. m \in MaskSet BY SignalsAssumption DEF MaskSet
      <2>2. "fn" \in {"dfl", "ign", "fn"} OBVIOUS
      <2>. QED BY <1>1, <1>5, <2>1, <2>2, ActionQuiet, QuietKept, Zenon
<1>6. ASSUME NEW s \in Sig, NEW h \in {"dfl", "ign"}, SignalAction(c, s, [DFL EXCEPT !.handler = h], FALSE)
      PROVE  Kept(c)
      <2>1. [DFL EXCEPT !.handler = h] = [handler |-> h, flags |-> {}, mask |-> {}] BY DEF DFL
      <2>2. h \in {"dfl", "ign", "fn"} /\ {} \in SUBSET Flags /\ {} \in MaskSet BY DEF MaskSet
      <2>3. SignalAction(c, s, [handler |-> h, flags |-> {}, mask |-> {}], FALSE) BY <1>6, <2>1
      <2>4. Quiet({}) /\ ~dead /\ ~stale BY <1>1, <2>2, <2>3, ActionQuiet
      <2>. QED BY <2>4, QuietKept, Zenon
<1>7. ASSUME SignalReturn(c) PROVE Kept(c) BY <1>1, <1>7, ReturnEffect, Zenon DEF Kept, MasksOK
<1>8. ASSUME Block(c) PROVE Kept(c) BY <1>1, <1>8, BlockThread, Zenon DEF Kept, MasksOK
<1>9. ASSUME NEW t \in Thread, thread_create(c, t) PROVE Kept(t) BY <1>1, <1>9, CreateEffect, Zenon DEF Kept
<1>10. ASSUME thread_destroy(c) PROVE Kept(c) BY <1>1, <1>10, DestroyEffect, Zenon DEF Kept
<1>. QED BY <1>2, <1>3, <1>4, <1>5, <1>6, <1>7, <1>8, <1>9, <1>10, Zenon DEF ThreadCall

\* Every step.
LEMMA StepKept ==
    ASSUME BaseInv, Next
    PROVE  \/ Quiet({}) /\ ~dead /\ ~stale
           \/ \E t \in Thread : Kept(t)
<1>1. Types BY DEF BaseInv
<1>2. ASSUME NEW s \in Sig, SignalKill(s) PROVE Quiet({}) /\ ~dead /\ ~stale BY <1>1, <1>2, KillQuiet, Zenon
<1>3. ASSUME NEW t \in Thread, signal_specret(t) PROVE Kept(t)
      BY <1>1, <1>3, SpecretEffect, Zenon DEF Kept, MasksOK
<1>4. ASSUME NEW t \in Thread, sigsuspend_specret(t) PROVE Kept(t)
      BY <1>1, <1>4, ResumeEffect, Zenon DEF Kept, MasksOK, NothingMissed
<1>5. ASSUME NEW t \in Thread, Wake(t) PROVE Kept(t) BY <1>1, <1>5, WakeQuiet, QuietKept, Zenon
<1>6. ASSUME NEW t \in Thread, ThreadCall(t) PROVE \E u \in Thread : Kept(u) BY <1>6, CallKept, Zenon
<1>7. ASSUME Debugger PROVE \E t \in Thread : Kept(t) BY <1>1, <1>7, ClearQuiet, QuietKept, Zenon DEF Debugger
<1>. QED BY <1>2, <1>3, <1>4, <1>5, <1>6, <1>7, Zenon DEF Next, SpecRet

\* The first thread has nothing.
LEMMA InitBase ==
    ASSUME Init
    PROVE  BaseInv /\ MasksOK /\ Remembered /\ StoppedWithoutCont
<1>1. PICK t \in Thread : state = [u \in Thread |-> IF u = t THEN "run" ELSE "none"] BY Zenon DEF Init
<1>2. /\ pending = [q \in Lists |-> Nothing]
      /\ blocked = [u \in Thread |-> {}] /\ saved = blocked /\ wait = blocked
      /\ active = [u \in Thread |-> FALSE] /\ suspended = active
      /\ frames = [u \in Thread |-> <<>>] /\ want = [u \in Thread |-> <<{{}}>>]
      /\ action = [s \in Sig |-> DFL] /\ stopped = FALSE /\ dead = FALSE /\ stale = FALSE
      BY Zenon DEF Init
<1>3. state \in [Thread -> States] /\ {} \in MaskSet BY <1>1 DEF States, MaskSet
<1>4. pending \in AllLists /\ \A q \in Lists, s \in Sig : pending[q][s] = <<>> BY <1>2 DEF AllLists, Nothing, Entries
<1>5. ActionTypes BY <1>2 DEF ActionTypes, DFL, MaskSet
<1>6. FrameTypes BY <1>2, <1>3 DEF FrameTypes
<1>7. active \in [Thread -> BOOLEAN] /\ \A u \in Thread : ~active[u] /\ ~suspended[u] BY <1>2, Zenon
<1>8. ThreadTypes BY <1>2, <1>3, <1>7, Zenon DEF ThreadTypes
<1>9. Types BY <1>2, <1>4, <1>5, <1>6, <1>8, Zenon DEF Types, FlagTypes
<1>10. \A u \in Thread : Gone(u) BY <1>2, <1>4, <1>7, ThreadInLists, Zenon DEF Gone
<1>11. MasksOK
       <2>1. \A u \in Thread : blocked[u] \in want[u][Len(want[u])] /\ \A i \in 1 .. Len(frames[u]) : frames[u][i] \in want[u][i]
             BY <1>2
       <2>. QED BY <1>7, <2>1, Zenon DEF MasksOK, MaskOK, Top
<1>12. Remembered BY <1>4, ThreadInLists, Zenon DEF Remembered, Looks, Leaves, Open
<1>13. StoppedWithoutCont BY <1>2, Zenon DEF StoppedWithoutCont
<1>. QED BY <1>9, <1>10, <1>11, <1>12, <1>13 DEF BaseInv

\* Every step keeps the types, and gives nothing to a thread that does not exist.
LEMMA BaseStep ==
    ASSUME BaseInv, Next
    PROVE  BaseInv' /\ StopKept
<1>1. CASE Quiet({})
      <2>1. \A u \in Thread : Gone(u)' BY <1>1, CalmKeeps, Zenon DEF Quiet, BaseInv
      <2>. QED BY <1>1, <2>1, Zenon DEF Quiet, BaseInv
<1>2. ASSUME NEW t \in Thread, Kept(t) PROVE BaseInv' /\ StopKept
      <2>1. \A u \in Thread \ {t} : Gone(u)' BY <1>2, CalmKeeps, Zenon DEF Kept, Quiet, BaseInv
      <2>. QED BY <1>2, <2>1, Zenon DEF Kept, Quiet, BaseInv
<1>. QED BY <1>1, <1>2, StepKept, Zenon

\* Every step keeps the masks.
LEMMA MaskStep ==
    ASSUME BaseInv, MasksOK, LeftAlone, Next
    PROVE  MasksOK'
<1>1. CASE Quiet({}) BY <1>1, CalmKeeps, Zenon DEF Quiet, MasksOK
<1>2. ASSUME NEW t \in Thread, Kept(t) PROVE MasksOK'
      <2>1. \A u \in Thread \ {t} : MaskOK(u)' BY <1>2, CalmKeeps, Zenon DEF Kept, Quiet, MasksOK
      <2>2. MaskOK(t)' BY <1>2, Zenon DEF Kept
      <2>. QED BY <2>1, <2>2, Zenon DEF MasksOK
<1>. QED BY <1>1, <1>2, StepKept, Zenon

\* No step forgets a signal.
LEMMA RememberStep ==
    ASSUME BaseInv, Remembered, NothingMissed, SingleOrDeferred, Next
    PROVE  Remembered'
<1>1. CASE Quiet({}) /\ ~dead /\ ~stale
      <2>1. \A u \in Thread : Looks(u)' /\ Leaves(u)' BY <1>1, CalmKeeps, Zenon DEF Quiet, Remembered
      <2>. QED BY <2>1, Zenon DEF Remembered
<1>2. ASSUME NEW t \in Thread, Kept(t) PROVE Remembered'
      <2>1. \A u \in Thread : Looks(u) /\ Leaves(u) BY <1>2, Zenon DEF Kept, Remembered
      <2>2. \A u \in Thread \ {t} : Looks(u)' /\ Leaves(u)' BY <1>2, <2>1, CalmKeeps, Zenon DEF Kept, Quiet
      <2>3. Looks(t)' /\ Leaves(t)' BY <1>2, <2>1, Zenon DEF Kept
      <2>. QED BY <2>2, <2>3, Zenon DEF Remembered
<1>. QED BY <1>1, <1>2, StepKept, Zenon

\* Nothing changes.
LEMMA BaseStutter ==
    ASSUME UNCHANGED vars
    PROVE  /\ BaseInv => BaseInv'
           /\ MasksOK => MasksOK'
           /\ Remembered => Remembered'
           /\ StopKept
<1>1. UNCHANGED <<pending, blocked, active, suspended, saved, state, wait, frames, want, action, stopped, dead, stale>>
      BY Zenon DEF vars, mem, env
<1>2. Types => Types' BY <1>1, Zenon DEF Types, ThreadTypes, FrameTypes, ActionTypes, FlagTypes
<1>3. \A t \in Thread : (Gone(t) => Gone(t)') /\ (MaskOK(t) => MaskOK(t)') /\ (Looks(t) => Looks(t)') /\ (Leaves(t) => Leaves(t)')
      <2>1. \A q : NoMore(q) BY <1>1, Zenon DEF NoMore
      <2>2. \A t \in Thread : Calm(t) BY <1>1, <2>1, Untouched, Zenon DEF SameMask
      <2>3. ProcessList BY <1>1, Zenon DEF ProcessList
      <2>. QED BY <2>2, <2>3, CalmKeeps, Zenon
<1>4. StopKept BY <1>1, Zenon DEF StopKept, StoppedWithoutCont
<1>. QED BY <1>1, <1>2, <1>3, <1>4, Zenon DEF BaseInv, MasksOK, Remembered
\* Only SignalSuspend sets QRV_FLG_THR_SIGSUSPEND.
NoneSuspended == \A t \in Thread : ~suspended[t]

\* Without SignalSuspend there is no mask that specialret puts back.
LEMMA SuspendStep ==
    ASSUME Types, "suspend" \notin Calls, NoneSuspended, [Next]_vars
    PROVE  NoneSuspended' /\ [LeftAlone /\ NothingMissed]_vars
<1>1. suspended \in [Thread -> BOOLEAN] BY DEF Types, ThreadTypes
<1>2. ASSUME NEW t \in Thread, suspended' = [suspended EXCEPT ![t] = FALSE] PROVE NoneSuspended'
      BY <1>1, <1>2, Zenon DEF NoneSuspended
<1>3. ASSUME UNCHANGED suspended PROVE NoneSuspended' BY <1>3, Zenon DEF NoneSuspended
<1>4. ASSUME NEW s \in Sig, SignalKill(s) PROVE UNCHANGED suspended BY <1>4, Zenon DEF SignalKill
<1>5. ASSUME NEW t \in Thread, SpecRet(t) PROVE UNCHANGED suspended \/ suspended' = [suspended EXCEPT ![t] = FALSE]
      BY <1>5, Zenon DEF SpecRet, signal_specret, StartHandler, sigsuspend_specret
<1>6. ASSUME NEW t \in Thread, Wake(t) PROVE UNCHANGED suspended BY <1>6, Zenon DEF Wake
<1>7. ASSUME NEW t \in Thread, ThreadCall(t) PROVE UNCHANGED suspended
      <2>1. ASSUME NEW s, NEW a, NEW q, SignalAction(t, s, a, q) PROVE UNCHANGED suspended BY <2>1, Zenon DEF SignalAction
      <2>2. ASSUME NEW u, NEW m, SignalProcmask(t, u, m) PROVE UNCHANGED suspended BY <2>2, Zenon DEF SignalProcmask
      <2>3. ASSUME NEW m, SignalWaitinfo(t, m) PROVE UNCHANGED suspended BY <2>3, Zenon DEF SignalWaitinfo
      <2>4. ASSUME SignalReturn(t) PROVE UNCHANGED suspended BY <2>4, Zenon DEF SignalReturn
      <2>5. ASSUME Block(t) \/ thread_destroy(t) \/ \E u \in Thread : thread_create(t, u) PROVE UNCHANGED suspended
            BY <2>5, Zenon DEF Block, thread_destroy, thread_create
      <2>. QED BY <1>7, <2>1, <2>2, <2>3, <2>4, <2>5, Zenon DEF ThreadCall
<1>8. ASSUME Debugger PROVE UNCHANGED suspended BY <1>8, Zenon DEF Debugger, signal_clear_thread
<1>9. ASSUME UNCHANGED vars PROVE UNCHANGED suspended BY <1>9, Zenon DEF vars
<1>10. NoneSuspended' BY <1>2, <1>3, <1>4, <1>5, <1>6, <1>7, <1>8, <1>9, Zenon DEF Next
<1>11. LeftAlone BY Zenon DEF LeftAlone, NoneSuspended
<1>12. NothingMissed BY Zenon DEF NothingMissed, NoneSuspended, sigsuspend_specret
<1>. QED BY <1>10, <1>11, <1>12

\* Without calls for other threads a thread in SignalSuspend is left alone.
LEMMA ForeignStep ==
    ASSUME "foreign" \notin Calls
    PROVE  LeftAlone
BY Zenon DEF LeftAlone
-----------------------------------------------------------------------------
\* The lists, masks and frames keep their types, and thread_destroy leaves nothing behind that
\* a thread created in its place would inherit.
THEOREM NothingIsInherited == Spec => []BaseInv
<1>1. Init => BaseInv BY InitBase
<1>2. BaseInv /\ [Next]_vars => BaseInv' BY BaseStep, BaseStutter, Zenon
<1>. QED BY <1>1, <1>2, PTL DEF Spec

\* A stopped process has no SIGCONT waiting in any list: special_case_signalhandling removes
\* the earlier ones when it stops, signal_block moves none in, and a later one continues it.
THEOREM StoppedHoldsNoCont == Spec => []StoppedWithoutCont
<1>1. Init => StoppedWithoutCont BY InitBase
<1>2. BaseInv /\ StoppedWithoutCont /\ [Next]_vars => StoppedWithoutCont' BY BaseStep, BaseStutter, Zenon DEF StopKept
<1>. QED BY <1>1, <1>2, NothingIsInherited, PTL DEF Spec

\* SIGCONT continues the process and removes the stop signals that are pending, whether its
\* threads block, handle or ignore it, unless one of them takes it in SignalWaitinfo ("Ensure
\* that SIGCONT always continues the process", "Remove any pending stop signals").
ContStep == SIGCONT \in Sig /\ SignalKill(SIGCONT) /\ NobodyWaits => NotStopped'
\* signal_kill_thread and signal_kill_process let every SIGCONT continue the process.
THEOREM ContNeverLost == Spec => [][ContStep]_vars
<1>1. BaseInv /\ [Next]_vars => [ContStep]_vars
      <2>1. ASSUME BaseInv PROVE ContStep BY <2>1, KillQuiet, Zenon DEF ContStep, BaseInv
      <2>. QED BY <2>1
<1>. QED BY <1>1, NothingIsInherited, PTL DEF Spec

\* Back in user mode a thread has the mask that its code expects, however SignalProcmask,
\* SignalSuspend, handlers and SignalReturn nest, provided that no other thread changes its
\* mask while it is in SignalSuspend.  Where SignalSuspend meets a pending cancellation the
\* code is the canstub, which has the mask of SignalSuspend; the code that a handler then
\* returns to, and the code before it, has the expected mask all the same.
THEOREM MasksAreRestored == Spec /\ [][LeftAlone]_vars => []MaskRestored
<1>1. Init => MasksOK BY InitBase
<1>2. BaseInv /\ MasksOK /\ [Next]_vars /\ [LeftAlone]_vars => MasksOK' BY MaskStep, BaseStutter, Zenon
<1>3. MasksOK => MaskRestored BY Zenon DEF MasksOK, MaskOK, MaskRestored, CanRun, Live, Top
<1>. QED BY <1>1, <1>2, <1>3, NothingIsInherited, PTL DEF Spec

\* An unblocked pending signal has QRV_FLG_THR_SIG_ACTIVE and a running thread, and the process
\* keeps only signals that no thread takes, provided that specialret puts no mask back under
\* which a signal is waiting.
THEOREM NoSignalIsForgotten ==
    ASSUME SingleOrDeferred
    PROVE  Spec /\ [][NothingMissed]_vars => [](ActiveIfPending /\ ProcessPendingBlocked)
<1>1. Init => Remembered BY InitBase
<1>2. BaseInv /\ Remembered /\ [Next]_vars /\ [NothingMissed]_vars => Remembered' BY RememberStep, BaseStutter, Zenon
<1>3. Remembered => ActiveIfPending BY Zenon DEF Remembered, ActiveIfPending, Looks, Live
<1>4. Remembered => ProcessPendingBlocked
      BY Zenon DEF Remembered, ProcessPendingBlocked, Leaves, Takers, Live
<1>. QED BY <1>1, <1>2, <1>3, <1>4, NothingIsInherited, PTL DEF Spec

\* Both provisos hold where SignalSuspend is not used.
THEOREM NeverSuspended ==
    ASSUME "suspend" \notin Calls
    PROVE  Spec => [][LeftAlone /\ NothingMissed]_vars
<1>1. Init => NoneSuspended BY Zenon DEF Init, NoneSuspended
<1>2. BaseInv /\ NoneSuspended /\ [Next]_vars => NoneSuspended' /\ [LeftAlone /\ NothingMissed]_vars
      BY SuspendStep, Zenon DEF BaseInv
<1>. QED BY <1>1, <1>2, NothingIsInherited, PTL DEF Spec

\* The mask is restored where threads change only their own masks, or do not use SignalSuspend.
THEOREM MasksAlwaysRestored ==
    ASSUME "foreign" \notin Calls \/ "suspend" \notin Calls
    PROVE  Spec => []MaskRestored
<1>1. CASE "foreign" \notin Calls
      <2>1. [LeftAlone]_vars BY <1>1, ForeignStep
      <2>. QED BY <2>1, MasksAreRestored, PTL
<1>2. CASE "suspend" \notin Calls
      <2>1. Spec => [][LeftAlone /\ NothingMissed]_vars BY <1>2, NeverSuspended
      <2>2. [LeftAlone /\ NothingMissed]_vars => [LeftAlone]_vars OBVIOUS
      <2>. QED BY <2>1, <2>2, MasksAreRestored, PTL
<1>. QED BY <1>1, <1>2

\* No signal is forgotten where SignalSuspend is not used.
THEOREM NoSignalIsEverForgotten ==
    ASSUME "suspend" \notin Calls, SingleOrDeferred
    PROVE  Spec => [](ActiveIfPending /\ ProcessPendingBlocked)
<1>1. Spec => [][LeftAlone /\ NothingMissed]_vars BY NeverSuspended
<1>2. [LeftAlone /\ NothingMissed]_vars => [NothingMissed]_vars OBVIOUS
<1>3. Spec /\ [][NothingMissed]_vars => [](ActiveIfPending /\ ProcessPendingBlocked) BY NoSignalIsForgotten
<1>. QED BY <1>1, <1>2, <1>3, PTL
=============================================================================
