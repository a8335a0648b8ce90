----------------------------- MODULE WalletSync -----------------------------
(***************************************************************************)
(* The synchronizer with the verifier of electrum/verifier.py: Merkle      *)
(* proofs against the headers of network.blockchain(), reorganisations,    *)
(* and the restart of both jobs with the main interface.                   *)
(***************************************************************************)
EXTENDS Synchronizer

CONSTANTS
  NotThere    \* the answer to a proof request when the transaction is not there

ASSUME WalletSyncAssumption == NotThere \notin Header \cup {None}

VARIABLES
  netBranch, \* network.blockchain()
  heights,   \* the height of each branch's Blockchain object
  spvBranch, \* SPV.blockchain
  proofs     \* the _request_and_verify_single_proof tasks

chains == <<netBranch, heights>>
verifier == <<spvBranch, proofs>>
vars == <<server, wallet, requests, chains, verifier>>

Init ==
  /\ SynchronizerInit
  /\ netBranch = branch
  /\ heights = [b \in Branch |-> ForkHeight]
  /\ spvBranch = branch /\ proofs = {}

\* The main interface takes the headers of its server: see ChainSync.
SyncHeaders ==
  /\ netBranch # branch \/ heights[branch] < tip
  /\ netBranch' = branch
  /\ heights' = [heights EXCEPT ![branch] = IF @ < tip THEN tip ELSE @]
  /\ UNCHANGED <<server, wallet, requests, verifier>>

\* The main interface broke and another takes its place, maybe one that has
\* its server's headers: default_server_changed resets and starts both jobs.
Restart ==
  /\ Started
  /\ wtx' = [t \in Tx |-> Unproved(wtx[t])]
  /\ proofs' = {}
  /\ \/ UNCHANGED chains
     \/ netBranch' = branch /\ heights' = [heights EXCEPT ![branch] = IF @ < tip THEN tip ELSE @]
  /\ spvBranch' = netBranch'

ConnectionLost ==
  /\ Event
  /\ Restart
  /\ UNCHANGED <<branch, tip, pool>>

\* A transaction of a history is unknown to the server that sent it: the
\* exception ends the connection.
TransactionRefused(t) ==
  /\ txAnswers[t] = "unknown" /\ t \notin boot
  /\ Restart
  /\ UNCHANGED server

\* One round of SPV.main: _maybe_undo_verifications and _request_proofs
SpvRound ==
  LET undone == [t \in Tx |-> IF netBranch = spvBranch THEN wtx[t]
                              ELSE Undone(wtx[t], netBranch, heights[netBranch])]
      due == {t \in Tx : /\ undone[t].unverified \in 1 .. heights[netBranch]
                         /\ ~undone[t].asked /\ ~undone[t].root}
  IN /\ netBranch # spvBranch \/ due # {}
     /\ spvBranch' = netBranch
     /\ wtx' = [t \in Tx |-> IF t \in due THEN [undone[t] EXCEPT !.asked = TRUE] ELSE undone[t]]
     /\ proofs' = proofs \cup {[tx |-> t, height |-> undone[t].unverified, answer |-> None] : t \in due}
     /\ UNCHANGED <<server, known, history, upToDate, requests, chains>>

\* The server finds the transaction at the height, or answers an error.
AnswerProof(p) ==
  /\ p \in proofs /\ p.answer = None
  /\ proofs' = (proofs \ {p}) \cup
       {[p EXCEPT !.answer = IF Block[branch][p.tx] = p.height /\ p.height <= tip
                             THEN HeaderAt(branch, p.height) ELSE NotThere]}
  /\ UNCHANGED <<server, wallet, requests, chains, spvBranch>>

\* Mutant: any header at that height will do.
HasAnyHeader(header) == header[1] <= heights[netBranch]

\* network.blockchain().read_header(height), with bhi_lock
HasHeader(header) == header[1] <= heights[netBranch] /\ header = HeaderAt(netBranch, header[1])

\* The rest of _request_and_verify_single_proof
OnProof(p) ==
  /\ p \in proofs /\ p.answer # None
  /\ \/ /\ p.answer = NotThere
        /\ wtx' = [wtx EXCEPT ![p.tx] = [RemoveUnverified(@, p.height) EXCEPT !.asked = FALSE]]
     \/ /\ p.answer # NotThere /\ HasHeader(p.answer)
        /\ wtx' = [wtx EXCEPT ![p.tx] = AddVerified(@, p.answer)]
  /\ proofs' = proofs \ {p}
  /\ UNCHANGED <<server, known, history, upToDate, requests, chains, spvBranch>>

\* The proof does not fit the header: GracefulDisconnect
ProofRefused(p) ==
  /\ p \in proofs /\ p.answer \notin {None, NotThere} /\ ~HasHeader(p.answer)
  /\ Restart
  /\ UNCHANGED server

VerifierStep ==
  \/ SpvRound
  \/ \E p \in proofs : AnswerProof(p) \/ OnProof(p)

Refused ==
  \/ \E t \in Tx : TransactionRefused(t)
  \/ \E p \in proofs : ProofRefused(p)

Next ==
  \/ ServerStep /\ UNCHANGED <<chains, verifier>>
  \/ SynchronizerStep /\ UNCHANGED <<chains, verifier>>
  \/ UserStep /\ UNCHANGED <<chains, verifier>>
  \/ VerifierStep
  \/ SyncHeaders
  \/ ConnectionLost
  \/ Refused

Fairness ==
  /\ WF_vars(\/ SynchronizerStep /\ UNCHANGED <<chains, verifier>>
             \/ VerifierStep
             \/ Refused)
  /\ WF_vars(SyncHeaders)

Spec == Init /\ [][Next]_vars /\ Fairness
-----------------------------------------------------------------------------
\* The type of every variable, those of Synchronizer included
TypeOK ==
  /\ branch \in Branch /\ tip \in Height /\ pool \subseteq Tx
  /\ events \in 0 .. MaxEvents
  /\ subscribed \subseteq Addr /\ known \subseteq Addr /\ scheduled \subseteq Addr
  /\ requestedAddrs \subseteq Addr /\ crossed \subseteq Addr /\ toBoot \subseteq Addr
  /\ history \in [Addr -> History] /\ wtx \in [Tx -> Entry] /\ upToDate \in BOOLEAN
  /\ main \in {"boot", "loop"} /\ boot \subseteq Tx
  /\ statuses \in [Addr -> Seq(History)]
  /\ tasks \subseteq Task
  /\ requestedTx \in [Tx -> Height \cup {None}]
  /\ txAnswers \in [Tx -> {"found", "unknown", None}]
  /\ removed \subseteq Tx /\ refused \subseteq Tx
  /\ netBranch \in Branch /\ spvBranch \in Branch /\ heights \in [Branch -> Height]
  /\ proofs \subseteq [tx: Tx, height: Height, answer: Header \cup {None, NotThere}]

\* No transaction is verified and unverified at once, and a Merkle root is
\* noted only for a verified transaction or one that was removed since the
\* connection began: remove_transaction alone takes a verification back without
\* a word to the verifier, whatever order statuses, transactions, proofs and
\* undone verifications come in.
RootsAreVerified ==
  \A t \in Tx : /\ wtx[t].root => wtx[t].verified # None \/ t \in removed
                /\ wtx[t].verified = None \/ wtx[t].unverified = None

\* "once it has been verified": see the README.
RootsMeanVerified == \A t \in Tx : wtx[t].root => wtx[t].verified # None

\* A verified transaction is in a block whose header the wallet holds, at that
\* height, even when its proof crossed a reorganisation or a new connection.
VerifiedHeadersHeld ==
  \A t \in Tx : wtx[t].verified # None =>
    \E b \in Branch : /\ wtx[t].verified = HeaderAt(b, Block[b][t])
                      /\ Block[b][t] \in 1 .. heights[b]

\* The wallet says it is up to date, nothing is on its way to it and nothing
\* waits in its queues.
Settled ==
  /\ main = "loop" /\ upToDate /\ IsUpToDate /\ scheduled = {}
  /\ \A a \in Addr : statuses[a] = <<>>

\* A wallet that says it is up to date has the server's history of each of its
\* addresses, unless the last status of it crossed a request; and every
\* transaction of a history is there, unless it was removed, or the wallet or
\* the server refused it.
SettledIsServers ==
  Settled => \A a \in known :
    /\ a \notin crossed => history[a] = ServerHistory(a)
    /\ \A e \in history[a] : wtx[e[1]].have \/ e[1] \in removed \cup refused

\* Without the exceptions: see the README.
UpToDateMeansServers ==
  Settled => \A a \in known : /\ history[a] = ServerHistory(a)
                              /\ \A e \in history[a] : wtx[e[1]].have

\* Then it also gives each transaction the server's height, once the headers
\* are there and no proof is on its way: undo_verifications counts on it ("if
\* we get a status update, that will overwrite it").
HeightsAgree ==
  Settled /\ proofs = {} /\ netBranch = branch /\ spvBranch = branch /\ heights[branch] >= tip
    => \A a \in known : \A e \in history[a] : TxHeight(wtx[e[1]]) = e[2]

\* Once the server stops changing, the wallet says it is up to date for good:
\* no request is lost, none is asked for again for ever, and refused
\* transactions and proofs end in a connection that works.
EventuallySettled == <>[]Settled
=============================================================================
