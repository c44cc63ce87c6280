----------------------------- MODULE CreateJob -----------------------------
(***************************************************************************)
(* The page that creates a job (apps/dashboard/src/pages/create-job.tsx):  *)
(* on the chain first, through the SDK and a wallet, then in the database, *)
(* through the API server that other tabs call too.                        *)
(*                                                                         *)
(* A page that is left forgets its state; what it sent goes on without it, *)
(* and so does its handler, unless the whole application goes.             *)
(* The wallet, the RPC node and the chain are modelled from what the page  *)
(* relies on.  The texts of the form that nothing compares are left out.   *)
(***************************************************************************)
EXTENDS ApiClient

CONSTANTS
    WideIds,             \* job ids of more than 32 bytes
    ProgramArgs,         \* the arguments of the deployed initialize_job
    Blank,               \* a form that does not validate
    wallet,              \* publicKey, the key the wallet signs with
    NoForm, NoEscrow

INSTANCE Sdk

VARIABLES
    connected,  \* a wallet is connected, and with it a MappersClient
    open,       \* the page is shown
    create,     \* its state
    signing,    \* handleInitOnChain awaiting rpc()
    late,       \* transactions that may still land although rpc() threw
    chain       \* chain[j]: the terms of the escrow opened for j, or NoEscrow

createvars == <<connected, open, create, signing, late, chain>>
pagevars == <<rows, call, connected, open, create, signing, late, chain>>

Forms == [job : JobIds, terms : Terms]

(* What can be typed.  The inputs are never disabled, the buttons are.     *)
Inputs == Forms \cup {Blank}

(* form is the one the handler closed over; tx is nothing sent yet, sent,  *)
(* executed; here says that the page is still the one it was pressed on.   *)
Signings == [form : Forms, tx : {"Unsent", "InFlight", "Landed"}, here : BOOLEAN]

ASSUME CreateJobAssumption ==
    wallet \in Clients /\ NoEscrow \notin Terms /\ NoForm \notin Signings

(* initialized says that txPhase is "done", with the signature of a        *)
(* transaction for that job.  tried is history: the jobs this page asked   *)
(* the wallet to open.                                                     *)
NewCreatePage ==
    [form |-> Blank, error |-> FALSE, creating |-> NoCall, initialized |-> {}, tried |-> {}]

CreateInit ==
    /\ ApiInit
    /\ connected = FALSE
    /\ open = TRUE
    /\ create = NewCreatePage
    /\ signing = NoForm
    /\ late = {}
    /\ chain = [j \in JobIds |-> NoEscrow]

-----------------------------------------------------------------------------
Send(c, q) == c # create.creating /\ Arrive(c, q)

(* The client of the wallet that is connected, if one is.                  *)
UseMappersClient == IF connected THEN {wallet} ELSE {}

(* The creation page.                                                      *)
Validates(f) == f # Blank /\ f.job \notin LongIds

Signing == signing # NoForm /\ signing.here
Busy == create.creating # NoCall \/ Signing

Buttons == {"RegisterOnly"} \cup {b \in {"InitOnChain"} : UseMappersClient # {}}

Enabled(button) == open /\ button \in Buttons /\ ~Busy

EditForm(f) ==
    /\ open
    /\ create' = [create EXCEPT !.form = f]
    /\ UNCHANGED <<apivars, connected, open, signing, late, chain>>

RegisterOnly(c) ==
    /\ Enabled("RegisterOnly")
    /\ IF Validates(create.form)
       THEN /\ Send(c, createJob(create.form.job, create.form.terms))
            /\ create' = [create EXCEPT !.creating = c, !.error = FALSE]
       ELSE /\ create' = [create EXCEPT !.error = TRUE]
            /\ UNCHANGED apivars
    /\ UNCHANGED <<connected, open, signing, late, chain>>

InitOnChain ==
    /\ Enabled("InitOnChain")
    /\ signing = NoForm
    /\ IF Validates(create.form)
       THEN /\ signing' = [form |-> create.form, tx |-> "Unsent", here |-> TRUE]
            /\ create' = [create EXCEPT !.error = FALSE, !.initialized = {},
                                        !.tried = @ \cup {create.form.job}]
       ELSE /\ create' = [create EXCEPT !.error = TRUE]
            /\ UNCHANGED signing
    /\ UNCHANGED <<apivars, connected, open, late, chain>>

(* The terms of the escrow that a form opens: the client is the signer,    *)
(* whatever the form says.                                                 *)
Opened(f) == [client |-> wallet, amount |-> f.terms.amount]

(* The user signs, and the simulation of the transaction succeeds.         *)
WalletSends ==
    /\ signing # NoForm /\ signing.tx = "Unsent"
    /\ ~ThrowsLocally(signing.form.job) /\ ProgramDecodes
    /\ chain[signing.form.job] = NoEscrow
    /\ signing' = [signing EXCEPT !.tx = "InFlight"]
    /\ UNCHANGED <<apivars, connected, open, create, late, chain>>

TxLands ==
    /\ signing # NoForm /\ signing.tx = "InFlight"
    /\ chain[signing.form.job] = NoEscrow
    /\ chain' = [chain EXCEPT ![signing.form.job] = Opened(signing.form)]
    /\ signing' = [signing EXCEPT !.tx = "Landed"]
    /\ UNCHANGED <<apivars, connected, open, create, late>>

LateTxLands(f) ==
    /\ f \in late
    /\ late' = late \ {f}
    /\ chain' = [chain EXCEPT ![f.job] = IF @ = NoEscrow THEN Opened(f) ELSE @]
    /\ UNCHANGED <<apivars, connected, open, create, signing>>

(* rpc() returned: registerInDb(sig), of the render the button was pressed *)
(* in.  It runs even if the page was left meanwhile.                       *)
FormOnScreen == IF create.form = Blank THEN signing.form ELSE create.form
FormRegistered == signing.form

RpcReturns(c) ==
    /\ signing # NoForm /\ signing.tx = "Landed"
    /\ Send(c, createJob(FormRegistered.job, FormRegistered.terms))
    /\ signing' = NoForm
    /\ create' = IF signing.here
                 THEN [create EXCEPT !.creating = c, !.initialized = {signing.form.job}]
                 ELSE create
    /\ UNCHANGED <<connected, open, late, chain>>

(* What may land although nobody waits for it any more.                    *)
Unawaited ==
    late \cup IF signing # NoForm /\ signing.tx = "InFlight" THEN {signing.form} ELSE {}

(* It threw: rejected by the user, the client or the program, or not       *)
(* confirmed in time.                                                      *)
RpcThrowsDone ==
    /\ signing # NoForm
    /\ signing' = NoForm
    /\ late' = Unawaited
    /\ create' = IF signing.here
                 THEN [create EXCEPT !.error = TRUE, !.initialized = {signing.form.job}]
                 ELSE create
    /\ UNCHANGED <<apivars, connected, open, chain>>
RpcThrows ==
    /\ signing # NoForm
    /\ signing' = NoForm
    /\ late' = Unawaited
    /\ create' = IF signing.here THEN [create EXCEPT !.error = TRUE] ELSE create
    /\ UNCHANGED <<apivars, connected, open, chain>>

(* The page is left, for another one or for a new one of its kind; the     *)
(* handler that awaits rpc() goes on.                                      *)
Close ==
    /\ open' = FALSE
    /\ create' = NewCreatePage
    /\ signing' = IF signing = NoForm THEN NoForm ELSE [signing EXCEPT !.here = FALSE]

Leave ==
    /\ open /\ Close
    /\ UNCHANGED <<apivars, connected, late, chain>>

(* A plain link, not one of the router's: the application is loaded anew,  *)
(* and the handler is gone with what it awaited.                           *)
Cancel ==
    /\ open /\ open' = FALSE
    /\ create' = NewCreatePage
    /\ signing' = NoForm /\ late' = Unawaited
    /\ connected' = FALSE
    /\ UNCHANGED <<apivars, chain>>

Open ==
    /\ ~open /\ open' = TRUE
    /\ UNCHANGED <<apivars, connected, create, signing, late, chain>>

RegistrationSilent(c) ==
    /\ open /\ c = create.creating /\ Over(c)
    /\ Release(c)
    /\ IF Fails(c)
       THEN /\ create' = [create EXCEPT !.creating = NoCall]
            /\ UNCHANGED <<open, signing>>
       ELSE Close
    /\ UNCHANGED <<connected, late, chain>>
RegistrationEnds(c) ==
    /\ open /\ c = create.creating /\ Over(c)
    /\ Release(c)
    /\ IF Fails(c)
       THEN /\ create' = [create EXCEPT !.creating = NoCall, !.error = TRUE]
            /\ UNCHANGED <<open, signing>>
       ELSE Close
    /\ UNCHANGED <<connected, late, chain>>

(* The wallet's own button, on every page, or autoConnect.  A handler      *)
(* under way keeps the client it was pressed with.                         *)
Connect ==
    /\ ~connected /\ connected' = TRUE
    /\ UNCHANGED <<apivars, open, create, signing, late, chain>>

Disconnect ==
    /\ connected /\ connected' = FALSE
    /\ UNCHANGED <<apivars, open, create, signing, late, chain>>

-----------------------------------------------------------------------------
User ==
    \/ Connect
    \/ Disconnect
    \/ \E f \in Inputs : EditForm(f)
    \/ \E c \in Calls : RegisterOnly(c)
    \/ InitOnChain
    \/ Leave
    \/ Cancel
    \/ Open

WalletAndChain ==
    \/ WalletSends
    \/ TxLands
    \/ \E c \in Calls : RpcReturns(c)
    \/ RpcThrows
    \/ \E f \in late : LateTxLands(f)

Server(c) == (ApiStep(c) \/ OtherTabs(c, {create.creating})) /\ UNCHANGED createvars

CreateNext ==
    \/ User
    \/ WalletAndChain
    \/ \E c \in Calls : RegistrationEnds(c) \/ Server(c)
    \/ ApiCrash /\ UNCHANGED createvars

CreateSpec == CreateInit /\ [][CreateNext]_pagevars

-----------------------------------------------------------------------------
(* What the page says.  "Confirming" is set and replaced without an await  *)
(* between, and never shown.                                               *)
TxStatus ==
    IF Signing THEN [phase |-> "signing", job |-> signing.form.job]
    ELSE IF create.initialized = {} THEN [phase |-> "idle"]
    ELSE [phase |-> "done", job |-> CHOOSE j \in create.initialized : TRUE]

(* Every variable of the page and of what it talks to has its type; the    *)
(* rows are ApiServer's.                                                   *)
CreateTypeOK ==
    /\ connected \in BOOLEAN /\ open \in BOOLEAN
    /\ create \in [form : Inputs, error : BOOLEAN, creating : Calls \cup {NoCall},
                   initialized : SUBSET JobIds, tried : SUBSET JobIds]
    /\ signing \in Signings \cup {NoForm}
    /\ late \subseteq Forms
    /\ chain \in [JobIds -> Terms \cup {NoEscrow}]

(* A job that was opened on the chain from this page and has no row is not *)
(* passed over in silence: the page is still at work on it, or shows an    *)
(* error, whatever was edited, pressed again or lost meanwhile.            *)
HalfMadeShown ==
    open => \A j \in create.tried : chain[j] # NoEscrow /\ ~Exists(j) => create.error \/ Busy

(* The page says "On-chain escrow initialized" only of a job it asked for  *)
(* and that is open on the chain, whatever was edited, pressed, refused or *)
(* failed since it first said so.                                          *)
InitializedIsOpen ==
    TxStatus.phase = "done" =>
        TxStatus.job \in create.tried /\ chain[TxStatus.job] # NoEscrow

(* The row that follows a signature is for the job and the amount that     *)
(* were signed, even if the form was edited or the page left while the     *)
(* wallet was asking.                                                      *)
RegisteredAsSigned ==
    [][ \A c \in Calls :
          /\ call[c].at = "Idle" /\ call'[c].req.op = "create"
          /\ signing # NoForm /\ signing' = NoForm
          => LET q == call'[c].req
             IN  q.job = signing.form.job /\ q.terms.amount = chain[q.job].amount ]_pagevars

=============================================================================
