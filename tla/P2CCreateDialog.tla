---------------------------- MODULE P2CCreateDialog ----------------------------
(***************************************************************************)
(* The page that creates bounties (qt/p2ccreatedialog.cpp): it prepares a  *)
(* batch on the wallet's worker, opens a confirmation, probes the domain   *)
(* for three seconds, freezes the signature algorithms, and commits on the *)
(* worker what the user approved.                                          *)
(*                                                                         *)
(* The GUI thread is always in an event loop: gui says which call it is    *)
(* nested in, and timers, the unloading of the wallet and the destruction  *)
(* of the page are events of any of these loops (the page's own guards do  *)
(* not count on unloading being deferred).  Clicks reach the page and its  *)
(* confirmation only in the outermost loop, since the nested ones show     *)
(* modal dialogs.  sendtop2c is a second user of batches.                  *)
(***************************************************************************)
EXTENDS P2CTransactionBatch, P2CRsaProbe

CONSTANTS Wallet             \* the WalletModel

ASSUME CreationAssumption ==
    /\ IsFiniteSet(Probes) /\ Probes = 1..Cardinality(Probes) /\ None \notin Probes
    /\ MaxActiveProbes \in Nat /\ Wallet # None

VARIABLES alive,             \* the page exists
          m_model,           \* Wallet or None
          m_batch,           \* address of the batch the page holds, or None
          m_confirmation,    \* number of the confirmation, or None
          m_probe,           \* the probe it waits for, or None
          m_ready_to_send,
          m_form,            \* the form is enabled
          gui,               \* the call whose event loop is running
          detaching,         \* setModel(nullptr) waits for the release
          shown,             \* the selection the confirmation shows, or None
          receipt,           \* the transactions on the receipt
          opened,            \* confirmations opened so far
          timers,            \* single-shot timers that exist
          tasks,             \* the worker's queue
          reply,             \* what the task the GUI waits for returned
          sendtop2c          \* the batch of a running sendtop2c, or None

pageVars == <<alive, m_model, m_batch, m_confirmation, m_probe, m_ready_to_send, m_form,
              gui, detaching, shown, receipt, opened, timers>>
workVars == <<tasks, reply>>
vars == <<batchVars, probeVars, pageVars, workVars, sendtop2c>>

Pending == [done |-> FALSE, batch |-> None, submitted |-> <<>>]
Submit(op, b) == tasks' = Append(tasks, [op |-> op, batch |-> b, submitted |-> <<>>])
Waits(op, b, where) == Submit(op, b) /\ reply' = Pending /\ gui' = where

\* cancelRsaProbe.
Cancelled == [p \in Probes |-> IF p = m_probe THEN [probe[p] EXCEPT !.cancelled = TRUE] ELSE probe[p]]
CancelProbe ==
    /\ probe' = Cancelled /\ m_probe' = None
    /\ UNCHANGED <<active_probes, m_active, stopVars>>

Init ==
    /\ WalletInit /\ ProbeInit
    /\ alive = TRUE /\ m_model = Wallet /\ m_form = TRUE
    /\ m_batch = None /\ m_confirmation = None /\ m_probe = None
    /\ m_ready_to_send = FALSE /\ gui = "idle" /\ detaching = FALSE
    /\ shown = None /\ receipt = <<>> /\ opened = 0 /\ timers = {}
    /\ tasks = <<>> /\ reply = Pending /\ sendtop2c = None

-----------------------------------------------------------------------------
(* The wallet's worker                                                     *)

AtHead(op) == tasks # <<>> /\ Head(tasks).op = op
Return(b, submitted) ==
    /\ tasks' = Tail(tasks)
    /\ reply' = [done |-> TRUE, batch |-> b, submitted |-> submitted]
Become(op, b, submitted) ==
    tasks' = <<[op |-> op, batch |-> b, submitted |-> submitted]>> \o Tail(tasks) /\ UNCHANGED reply

WorkPrepare ==
    /\ AtHead("prepare")
    /\ \/ CanAllocate /\ Prepare(Allocated, Coins) /\ Become("alternative", Allocated, <<>>)
       \/ Return(None, <<>>) /\ UNCHANGED batchVars
    /\ UNCHANGED <<probeVars, pageVars, sendtop2c>>

\* Mutant: the batch goes away without its destructor.
AlternativeFailsLeaking(b) == batch' = [batch EXCEPT ![b] = None] /\ UNCHANGED walletVars /\ Return(None, <<>>)
AlternativeFails(b) == Destroy(b) /\ Return(None, <<>>)

\* cs_wallet was left in between; without its alternative the batch is destroyed.
WorkAlternative ==
    /\ AtHead("alternative")
    /\ \/ PrepareAlternative(Head(tasks).batch) /\ Return(Head(tasks).batch, <<>>)
       \/ AlternativeFails(Head(tasks).batch)
    /\ UNCHANGED <<probeVars, pageVars, sendtop2c>>

\* The transactions the task returns for the receipt.
Listed(x) == SubSeq(x.m_transactions, 1, x.m_committed_count)

WorkCommit ==
    /\ AtHead("commit")
    /\ LET b == Head(tasks).batch
       IN  \/ \E count \in 0..Len(batch[b].m_transactions) :
                /\ Commit(b, count)
                /\ Become("reset", b, Listed(batch'[b]))
           \/ CommitRefused(b) /\ Become("reset", b, <<>>)
    /\ UNCHANGED <<probeVars, pageVars, sendtop2c>>

\* batch.reset(), ending a commit or releasing a batch; nobody waits for the release
\* that the destructor of the page queued.
WorkReset ==
    /\ tasks # <<>> /\ Head(tasks).op \in {"reset", "release", "cleanup"}
    /\ Destroy(Head(tasks).batch)
    /\ IF Head(tasks).op = "cleanup" THEN tasks' = Tail(tasks) /\ UNCHANGED reply
       ELSE Return(None, Head(tasks).submitted)
    /\ UNCHANGED <<probeVars, pageVars, sendtop2c>>

WorkerStep == WorkPrepare \/ WorkAlternative \/ WorkCommit \/ WorkReset

-----------------------------------------------------------------------------
(* prepare                                                                 *)

\* The windows are hidden once Stop has returned.
PrepareClicked ==
    /\ alive /\ gui = "idle" /\ m_form /\ ~torn
    /\ m_model # None /\ m_batch = None
    /\ opened < Cardinality(Probes)
    /\ gui' = "unlocking"
    /\ UNCHANGED <<batchVars, probeVars, workVars, sendtop2c, alive, m_model, m_batch, m_confirmation,
                   m_probe, m_ready_to_send, m_form, detaching, shown, receipt, opened, timers>>

\* requestUnlock returns; the user may have refused, and the page may be gone or
\* detached.
UnlockReturns ==
    /\ gui = "unlocking"
    /\ \/ gui' = "idle" /\ UNCHANGED workVars
       \/ alive /\ m_model = Wallet /\ Waits("prepare", None, "preparing")
    /\ UNCHANGED <<batchVars, probeVars, sendtop2c, alive, m_model, m_batch, m_confirmation,
                   m_probe, m_ready_to_send, m_form, detaching, shown, receipt, opened, timers>>


\* The confirmation is opened and startRsaProbe runs.
Open(b) ==
    \E created \in BOOLEAN :
        /\ Started(opened + 1, created)
        /\ timers' = timers \cup {opened + 1}
        /\ m_batch' = b /\ opened' = opened + 1
        /\ m_confirmation' = opened + 1 /\ m_probe' = opened + 1
        /\ m_ready_to_send' = FALSE /\ m_form' = FALSE /\ shown' = None
        /\ gui' = "idle" /\ reply' = Pending
        /\ UNCHANGED <<m_active, stopVars, tasks, alive, m_model, detaching, receipt>>

\* The worker has answered: the batch is released where the page is gone or
\* detached or the fee is out of range, and shown otherwise.
PrepareReturns ==
    /\ gui = "preparing" /\ reply.done
    /\ \/ /\ reply.batch = None
          /\ gui' = "idle" /\ reply' = Pending
          /\ UNCHANGED <<probeVars, tasks, alive, m_model, m_batch, m_confirmation, m_probe,
                         m_ready_to_send, m_form, detaching, shown, receipt, opened, timers>>
       \/ /\ reply.batch # None
          /\ Waits("release", reply.batch, "releasing")
          /\ UNCHANGED <<probeVars, alive, m_model, m_batch, m_confirmation, m_probe,
                         m_ready_to_send, m_form, detaching, shown, receipt, opened, timers>>
       \/ reply.batch # None /\ alive /\ m_model = Wallet /\ Open(reply.batch)
    /\ UNCHANGED <<batchVars, sendtop2c>>

-----------------------------------------------------------------------------
(* The confirmation                                                        *)

\* Mutant: any timer freezes the selection.
FreezeAppliesAny(p) == m_confirmation # None /\ m_batch # None /\ m_model # None
\* freezeSignatureAlgorithms, when the timer of probe p fires.
FreezeApplies(p) == m_probe = p /\ m_confirmation # None /\ m_batch # None /\ m_model # None
MaskFor(p) == IF probe[p].rsa_verified THEN RSA ELSE ALL
Freeze(p) ==
    /\ FreezeApplies(p)
    /\ SelectMask(m_batch, MaskFor(p))
    /\ shown' = MaskFor(p)
    /\ m_ready_to_send' = TRUE
    /\ CancelProbe

\* A timer that was due when its confirmation was closed may still fire before Qt
\* deletes it with the confirmation, or is deleted: the same step, where it does not
\* apply any more.
TimerFires(p) ==
    /\ p \in timers /\ probe[p].late
    /\ timers' = timers \ {p}
    /\ \/ Freeze(p)
       \/ ~FreezeApplies(p) /\ UNCHANGED <<batchVars, probeVars, shown, m_ready_to_send, m_probe>>
    /\ UNCHANGED <<workVars, sendtop2c, alive, m_model, m_batch, m_confirmation, m_form, gui,
                   detaching, receipt, opened>>

\* finishConfirmation up to its wait: the batch moves to the worker.  A timer that is
\* not yet due goes with the confirmation; Qt may delete it after the wait only, but
\* the confirmation's probe is over and FreezeApplies fails for it by then.
Finish(approved) ==
    /\ CancelProbe
    /\ m_batch' = None /\ m_confirmation' = None /\ m_ready_to_send' = FALSE
    /\ Waits(IF approved THEN "commit" ELSE "release", m_batch,
             IF approved THEN "committing" ELSE "releasing")
    /\ timers' = {p \in timers : probe[p].late}
    /\ UNCHANGED <<batchVars, sendtop2c, alive, m_model, m_form, shown, receipt, opened>>

\* The user answers; Send is enabled only once the selection is frozen.
Answer ==
    /\ alive /\ gui = "idle" /\ m_confirmation # None
    /\ \E yes \in BOOLEAN : (yes => m_ready_to_send) /\ Finish(yes)
    /\ UNCHANGED detaching

Released ==
    /\ gui = "releasing" /\ reply.done
    /\ gui' = "idle" /\ reply' = Pending /\ detaching' = FALSE /\ shown' = None
    /\ m_model' = IF alive /\ detaching THEN None ELSE m_model
    /\ m_form' = IF alive THEN m_model' # None ELSE m_form
    /\ UNCHANGED <<batchVars, probeVars, tasks, sendtop2c, alive, m_batch, m_confirmation,
                   m_probe, m_ready_to_send, receipt, opened, timers>>

CommitReturns ==
    /\ gui = "committing" /\ reply.done
    /\ gui' = "idle" /\ reply' = Pending /\ shown' = None
    /\ \/ ~(alive /\ m_model = Wallet) /\ UNCHANGED <<receipt, m_form>>
       \/ alive /\ m_model = Wallet /\ receipt' = reply.submitted /\ m_form' = TRUE
    /\ UNCHANGED <<batchVars, probeVars, tasks, sendtop2c, alive, m_model, m_batch, m_confirmation,
                   m_probe, m_ready_to_send, detaching, opened, timers>>

-----------------------------------------------------------------------------
(* setModel, the destructor, sendtop2c                                     *)

\* setModel(nullptr): an open confirmation is rejected first.
Detach ==
    /\ alive /\ m_model = Wallet /\ ~detaching
    /\ \/ m_confirmation # None /\ Finish(FALSE) /\ detaching' = TRUE
       \/ /\ m_confirmation = None
          /\ m_model' = None /\ m_form' = FALSE
          /\ UNCHANGED <<batchVars, probeVars, workVars, sendtop2c, alive, m_batch, m_confirmation, m_probe,
                         m_ready_to_send, gui, detaching, shown, receipt, opened, timers>>

\* Mutant: the destructor forgets the batch.
QueueReleaseNever(b) == UNCHANGED tasks
\* The destructor queues the release of the batch and waits for nothing.
\* The page's members and widgets go with it; what was approved is still committed.
QueueRelease(b) == IF b = None THEN UNCHANGED tasks ELSE Submit("cleanup", b)
DestroyPage ==
    /\ alive
    /\ alive' = FALSE
    /\ CancelProbe
    /\ QueueRelease(m_batch)
    /\ m_batch' = None /\ m_confirmation' = None /\ timers' = {}
    /\ m_model' = None /\ m_ready_to_send' = FALSE /\ m_form' = FALSE /\ receipt' = <<>>
    /\ detaching' = FALSE /\ shown' = IF gui = "committing" THEN shown ELSE None
    /\ UNCHANGED <<batchVars, sendtop2c, reply, gui, opened>>

\* sendtop2c prepares and commits a batch of its own, and destroys it, a step of its
\* own only where reservations are left; no call starts
\* once the RPC server was interrupted, which precedes Stop (startShutdown).
RpcPrepare ==
    /\ sendtop2c = None /\ ~m_stopping
    /\ CanAllocate /\ Prepare(Allocated, Contested) /\ sendtop2c' = Allocated
    /\ UNCHANGED <<probeVars, pageVars, workVars>>
RpcCommit ==
    /\ sendtop2c # None
    /\ \E count \in 0..Len(batch[sendtop2c].m_transactions) : CommitAndDestroy(sendtop2c, count)
    /\ sendtop2c' = None
    /\ UNCHANGED <<probeVars, pageVars, workVars>>
RpcRefused ==
    /\ sendtop2c # None /\ ~Reserved(sendtop2c)
    /\ Destroy(sendtop2c) /\ sendtop2c' = None
    /\ UNCHANGED <<probeVars, pageVars, workVars>>

-----------------------------------------------------------------------------
GuiReturns == PrepareReturns \/ Released \/ CommitReturns
Next ==
    \/ PrepareClicked \/ UnlockReturns \/ Answer \/ GuiReturns
    \/ \E p \in Probes : TimerFires(p)
    \/ Detach \/ DestroyPage
    \/ WorkerStep
    \/ RpcPrepare \/ RpcCommit \/ RpcRefused
    \/ WalletNext /\ UNCHANGED <<probeVars, pageVars, workVars, sendtop2c>>
    \/ ProbeNext /\ UNCHANGED <<batchVars, pageVars, workVars, sendtop2c>>

\* The event loop and the worker keep running; the user, the resolver and the other
\* users of the wallet owe nothing.
Fairness ==
    /\ ProbeFairness
    /\ []<>(tasks = <<>>) /\ []<>(~reply.done)
    /\ \A p \in Probes : []<>(p \notin timers \/ ~probe[p].late)

Spec == Init /\ [][Next]_vars /\ Fairness

-----------------------------------------------------------------------------
(* Properties                                                              *)

TypeOK ==
    /\ WalletTypeOK /\ ProbeTypeOK
    /\ alive \in BOOLEAN /\ m_ready_to_send \in BOOLEAN /\ m_form \in BOOLEAN /\ detaching \in BOOLEAN
    /\ m_model \in {Wallet, None} /\ {m_batch, sendtop2c} \subseteq Addresses \cup {None}
    /\ {m_confirmation, m_probe} \subseteq Probes \cup {None} /\ timers \subseteq Probes
    /\ gui \in {"idle", "unlocking", "preparing", "releasing", "committing"}
    /\ shown \in Masks \cup {None} /\ opened \in 0..Cardinality(Probes)

\* The worker adds to the wallet only transactions with the selection that the
\* confirmation showed when the user approved it ("late probe results never reach
\* either", p2ccreatedialog.cpp:254).
CommitsWhatWasShown ==
    [][WorkCommit => \A c \in Coins : mapTxSpends'[c] # mapTxSpends[c] => mapTxSpends'[c][Len(mapTxSpends'[c])] = shown]_vars

\* Bounties are restricted to RSA only for a domain that was seen to serve it, by
\* the probe of this very confirmation (p2ccreatedialog.cpp:237): not by an earlier
\* probe whose thread or timer is still around.
RsaOnlyWhenServed == m_confirmation # None /\ shown = RSA => probe[m_confirmation].verified

\* A batch that exists has one holder: the page, the answer it waits for, a task of
\* the worker or sendtop2c.  None is destroyed twice, used after its destruction, or
\* left behind, in whatever call the page or its wallet goes away (m_batch moves into
\* the worker's tasks, p2ccreatedialog.cpp:53, 180, 431).
Holders(b) ==
    {h \in {<<"page", m_batch>>, <<"reply", reply.batch>>, <<"sendtop2c", sendtop2c>>} : h[2] = b}
    \cup {<<"task", i>> : i \in {j \in DOMAIN tasks : tasks[j].batch = b}}
BatchOwnedOnce == \A b \in Addresses : Cardinality(Holders(b)) = IF batch[b] = None THEN 0 ELSE 1

\* Whatever the page, its worker and sendtop2c do with batches are operations of a
\* batch that exists, each done to its end: the locks are released by the destructor
\* or by Commit, never by neither (BatchSpec, ~P2CTransactionBatch p2c.cpp:28).
ImplementsBatch == WalletInit /\ [][UNCHANGED batchVars \/ BatchNext]_batchVars

\* A confirmation that waits for its probe holds a batch on which either selection
\* succeeds, so that freezeSignatureAlgorithms never takes its error path.
FreezeReady ==
    m_probe # None => /\ m_confirmation = m_probe /\ m_batch # None /\ m_model # None
                      /\ \A mask \in Masks : CanSelectMask(batch[m_batch], mask)

\* The receipt names only transactions that are in the wallet, also where the
\* database failed part-way through the batch (p2c.cpp:214).
ReceiptExact == \A i \in DOMAIN receipt : receipt[i].mask \in Range(mapTxSpends[receipt[i].coin])

\* Every confirmation can be answered or is closed: the timer alone enables Send,
\* whatever becomes of the probe (p2ccreatedialog.cpp:201-213).
ConfirmationAnswerable == \A p \in Probes : []<>(m_confirmation = p => m_ready_to_send)

\* A page that is destroyed or left without a wallet gives its reservations back,
\* in whatever call it was (ReleaseBatch, ~P2CCreateDialog).
PageReservations == {c \in Coins : m_coin_lock_owners[c] \notin {None, sendtop2c}}
ReservationsReturn ==
    <>[](~alive \/ m_model = None) => <>[](PageReservations = {})

\* The page and its probes fit together in every state, whichever nested event loop,
\* unload or shutdown came in between (p2ccreatedialog.cpp:180-469).
CreationSound ==
    /\ TypeOK /\ NoPhaseAfterStop /\ BatchOwnedOnce
    /\ RsaOnlyWhenServed /\ FreezeReady /\ ReceiptExact

\* Nobody waits for a resolver: neither the shutdown nor the user before a
\* confirmation (p2c_tls.cpp:87, p2ccreatedialog.cpp:201).
CreationProceeds == ShutdownEnds /\ ConfirmationAnswerable
=============================================================================
