--------------------------- MODULE CreateJobProofs --------------------------
(***************************************************************************)
(* Proofs about CreateJob: whatever is edited, left or lost while the      *)
(* wallet asks, what is registered after a signature is what was signed.   *)
(***************************************************************************)
EXTENDS CreateJob, TLAPS

PageTyped ==
    create \in [form : Inputs, error : BOOLEAN, creating : Calls \cup {NoCall},
                initialized : SUBSET JobIds, tried : SUBSET JobIds]

(* A call that is not in use carries no request.                           *)
IdleCarriesNothing ==
    /\ call = [c \in Calls |-> call[c]]
    /\ \A c \in Calls : call[c].at = "Idle" => call[c].req.op # "create"

(* What was sent is a form that was on the screen; a transaction that      *)
(* landed has opened its job, with its terms, and nothing replaces it.     *)
Signed ==
    /\ chain \in [JobIds -> Terms \cup {NoEscrow}]
    /\ late \subseteq Forms
    /\ signing = NoForm \/ signing \in Signings
    /\ signing # NoForm /\ signing.tx = "Landed" =>
          chain[signing.form.job] = Opened(signing.form)

(* What the page says of a job's escrow; a handler on the page tried it.   *)
Told ==
    /\ \A j \in create.initialized : j \in create.tried /\ chain[j] # NoEscrow
    /\ Signing => signing.form.job \in create.tried

SigningInv == PageTyped /\ IdleCarriesNothing /\ Signed

-----------------------------------------------------------------------------
LEMMA OpenedIsTerms ==
    ASSUME NEW f \in Forms
    PROVE  /\ f.job \in JobIds /\ Opened(f) \in Terms /\ Opened(f) # NoEscrow
           /\ f.terms.amount = Opened(f).amount
BY CreateJobAssumption DEF Forms, Terms, Opened

LEMMA InitEstablishesSigningInv == CreateInit => SigningInv
BY DEF CreateInit, ApiInit, NewCreatePage, SigningInv, PageTyped, IdleCarriesNothing,
       Signed, IdleCall, NoRequest, Inputs

(* A step that gives one call a record keeps the idle ones empty, if that  *)
(* record is.                                                              *)
LEMMA OneCallChanges ==
    ASSUME IdleCarriesNothing, NEW c \in Calls, NEW r,
           call' = [call EXCEPT ![c] = r],
           r.at = "Idle" => r.req.op # "create"
    PROVE  /\ IdleCarriesNothing'
           /\ call'[c] = r
           /\ \A d \in Calls \ {c} : call'[d] = call[d]
BY DEF IdleCarriesNothing

LEMMA CallsGoOn ==
    ASSUME IdleCarriesNothing, NEW c \in Calls
    PROVE  /\ \A at, q : at # "Idle" /\ Goto(c, at, q) => IdleCarriesNothing'
           /\ \A a : Answer(c, a) => IdleCarriesNothing'
           /\ Release(c) => IdleCarriesNothing'
           /\ \A q : Arrive(c, q) => IdleCarriesNothing'
<1>1. ASSUME NEW at, NEW q, at # "Idle", Goto(c, at, q)
      PROVE  IdleCarriesNothing'
  BY <1>1, OneCallChanges DEF Goto
<1>2. ASSUME NEW a, Answer(c, a)
      PROVE  IdleCarriesNothing'
  BY <1>2, OneCallChanges DEF Answer
<1>3. ASSUME Release(c)
      PROVE  IdleCarriesNothing'
  BY <1>3, OneCallChanges DEF Release, IdleCall, NoRequest
<1>4. ASSUME NEW q, Arrive(c, q)
      PROVE  IdleCarriesNothing'
  <2>1. \/ \E a : Answer(c, a)
        \/ Goto(c, "Asking", q)
        \/ Goto(c, "Probing", q)
        \/ Goto(c, "Querying", q)
    BY <1>4, Zenon DEF Arrive
  <2> QED BY <2>1, <1>1, <1>2
<1> QED BY <1>1, <1>2, <1>3, <1>4

LEMMA ServerKeepsIdle ==
    ASSUME IdleCarriesNothing, NEW c \in Calls, ApiStep(c)
    PROVE  IdleCarriesNothing'
<1>1. ASSUME NEW reply, OracleReplies(c, reply)
      PROVE  IdleCarriesNothing'
  <2>1. \/ \E a : Answer(c, a)
        \/ \E q : Goto(c, "Querying", q)
    BY <1>1, ZenonT(60) DEF OracleReplies
  <2> QED BY <2>1, CallsGoOn
<1>2. ASSUME NEW health, HealthReplies(c, health)
      PROVE  IdleCarriesNothing'
  BY <1>2, CallsGoOn DEF HealthReplies
<1>3. CASE Execute(c)
  BY <1>3, CallsGoOn DEF Execute
<1>4. CASE DbBreaks(c)
  BY <1>4, CallsGoOn DEF DbBreaks
<1> QED BY <1>1, <1>2, <1>3, <1>4 DEF ApiStep

LEMMA CrashKeepsIdle == IdleCarriesNothing /\ ApiCrash => IdleCarriesNothing'
<1> SUFFICES ASSUME IdleCarriesNothing, ApiCrash PROVE IdleCarriesNothing'
  OBVIOUS
<1>1. PICK lost : call' = [c \in Calls |-> IF c \in lost \/ call[c].at \in {"Asking", "Probing", "Querying"}
                                  THEN [IdleCall EXCEPT !.at = "Lost"] ELSE call[c]]
  BY DEF ApiCrash
<1> QED BY <1>1 DEF IdleCarriesNothing, IdleCall

-----------------------------------------------------------------------------
(* Closing the page only marks the signature that goes on.                 *)
LEMMA ClosingKeepsSigned ==
    ASSUME Signed, Close, UNCHANGED <<late, chain>>
    PROVE  Signed' /\ PageTyped' /\ (signing' = NoForm => signing = NoForm)
<1>1. PageTyped'
  BY DEF Close, NewCreatePage, PageTyped, Inputs
<1>2. CASE signing = NoForm
  BY <1>1, <1>2 DEF Close, Signed
<1>3. CASE signing # NoForm
  <2>1. signing \in Signings /\ signing' = [signing EXCEPT !.here = FALSE]
    BY <1>3 DEF Close, Signed
  <2>2. /\ signing' \in Signings /\ signing'.form = signing.form
        /\ signing'.tx = signing.tx
    BY <2>1 DEF Signings
  <2>3. Signed'
    BY <1>3, <2>2 DEF Signed, Opened
  <2> QED BY <1>1, <2>2, <2>3, CreateJobAssumption
<1> QED BY <1>2, <1>3

LEMMA NextPreservesSigningInv == SigningInv /\ [CreateNext]_pagevars => SigningInv'
<1> SUFFICES ASSUME SigningInv, [CreateNext]_pagevars PROVE SigningInv'
  OBVIOUS
<1> USE DEF SigningInv
<1>1. ASSUME NEW f \in Inputs, EditForm(f)
      PROVE  SigningInv'
  BY <1>1 DEF EditForm, apivars, PageTyped, IdleCarriesNothing, Signed
<1>2. ASSUME NEW c \in Calls, RegisterOnly(c)
      PROVE  SigningInv'
  <2>1. Signed' /\ PageTyped'
    BY <1>2 DEF RegisterOnly, PageTyped, Signed
  <2>2. IdleCarriesNothing'
    <3>1. CASE Validates(create.form)
      BY <1>2, <3>1, CallsGoOn DEF RegisterOnly, Send
    <3>2. CASE ~Validates(create.form)
      BY <1>2, <3>2 DEF RegisterOnly, apivars, IdleCarriesNothing
    <3> QED BY <3>1, <3>2
  <2> QED BY <2>1, <2>2
<1>3. CASE InitOnChain
  <2>0. IdleCarriesNothing'
    BY <1>3 DEF InitOnChain, apivars, IdleCarriesNothing
  <2>1. CASE Validates(create.form)
    <3>1. create.form \in Forms
      BY <2>1 DEF Validates, PageTyped, Inputs
    <3>2. create.form.job \in JobIds
      BY <3>1, OpenedIsTerms
    <3>3. signing' \in Signings /\ signing'.tx = "Unsent"
      <4>1. signing' = [form |-> create.form, tx |-> "Unsent", here |-> TRUE]
        BY <1>3, <2>1 DEF InitOnChain
      <4> QED BY <3>1, <4>1 DEF Signings
    <3>4. PageTyped'
      <4>1. create' = [create EXCEPT !.error = FALSE, !.initialized = {},
                                     !.tried = @ \cup {create.form.job}]
        BY <1>3, <2>1 DEF InitOnChain
      <4>2. {} \in SUBSET JobIds /\ create.tried \cup {create.form.job} \in SUBSET JobIds
        BY <3>2 DEF PageTyped
      <4> QED BY <4>1, <4>2 DEF PageTyped
    <3> QED BY <1>3, <2>0, <3>3, <3>4 DEF InitOnChain, Signed
  <2>2. CASE ~Validates(create.form)
    BY <1>3, <2>0, <2>2 DEF InitOnChain, PageTyped, Signed
  <2> QED BY <2>1, <2>2
<1>4. CASE Leave
  BY <1>4, ClosingKeepsSigned DEF Leave, apivars, IdleCarriesNothing
<1>5. CASE Open
  BY <1>5 DEF Open, apivars, PageTyped, IdleCarriesNothing, Signed
<1>6. CASE WalletSends
  <2>1. signing \in Signings /\ signing' = [signing EXCEPT !.tx = "InFlight"]
    BY <1>6 DEF WalletSends, Signed
  <2>2. signing' \in Signings /\ signing'.tx = "InFlight"
    BY <2>1 DEF Signings
  <2> QED BY <1>6, <2>2 DEF WalletSends, apivars, PageTyped, IdleCarriesNothing, Signed
<1>7. CASE TxLands
  <2>1. /\ signing \in Signings /\ signing' = [signing EXCEPT !.tx = "Landed"]
        /\ chain' = [chain EXCEPT ![signing.form.job] = Opened(signing.form)]
    BY <1>7 DEF TxLands, Signed
  <2>2. signing' \in Signings /\ signing'.form = signing.form /\ signing.form \in Forms
    BY <2>1 DEF Signings
  <2>3. Opened(signing.form) \in Terms /\ signing.form.job \in JobIds
    BY <2>2, OpenedIsTerms
  <2>4. /\ chain' \in [JobIds -> Terms \cup {NoEscrow}]
        /\ chain'[signing'.form.job] = Opened(signing.form)
    BY <2>1, <2>2, <2>3 DEF Signed
  <2>5. Opened(signing.form) = Opened(signing.form)'
    BY <2>2 DEF Opened
  <2> QED BY <1>7, <2>2, <2>4, <2>5 DEF TxLands, apivars, PageTyped, IdleCarriesNothing, Signed
<1>8. ASSUME NEW c \in Calls, RpcReturns(c)
      PROVE  SigningInv'
  <2>1. signing.form.job \in JobIds
    BY <1>8, OpenedIsTerms DEF RpcReturns, Signed, Signings
  <2> QED BY <1>8, <2>1, CallsGoOn DEF RpcReturns, Send, PageTyped, Signed
<1>9. CASE RpcThrows
  <2>1. late' \subseteq Forms
    BY <1>9 DEF RpcThrows, Unawaited, Signed, Signings
  <2> QED BY <1>9, <2>1 DEF RpcThrows, apivars, PageTyped, IdleCarriesNothing, Signed
<1>10. ASSUME NEW f \in late, LateTxLands(f)
       PROVE  SigningInv'
  <2>1. f \in Forms /\ Opened(f) \in Terms /\ f.job \in JobIds
    BY OpenedIsTerms DEF Signed
  <2>2. chain' \in [JobIds -> Terms \cup {NoEscrow}]
    BY <1>10, <2>1 DEF LateTxLands, Signed
  <2>3. ASSUME signing # NoForm, signing.tx = "Landed"
        PROVE  chain'[signing.form.job] = Opened(signing.form)
    <3>1. signing.form \in Forms
      BY <2>3 DEF Signed, Signings
    <3>2. chain[signing.form.job] # NoEscrow
      BY <2>3, <3>1, OpenedIsTerms DEF Signed
    <3> QED BY <1>10, <2>1, <2>3, <3>1, <3>2, OpenedIsTerms DEF LateTxLands, Signed
  <2> QED BY <1>10, <2>2, <2>3
          DEF LateTxLands, apivars, PageTyped, IdleCarriesNothing, Signed, Opened
<1>11. ASSUME NEW c \in Calls, RegistrationEnds(c)
       PROVE  SigningInv'
  <2>1. IdleCarriesNothing'
    BY <1>11, CallsGoOn DEF RegistrationEnds
  <2>2. CASE Fails(c)
    BY <1>11, <2>1, <2>2 DEF RegistrationEnds, PageTyped, Signed
  <2>3. CASE ~Fails(c)
    BY <1>11, <2>1, <2>3, ClosingKeepsSigned DEF RegistrationEnds
  <2> QED BY <2>2, <2>3
<1>12. ASSUME NEW c \in Calls, Server(c)
       PROVE  SigningInv'
  <2>1. IdleCarriesNothing'
    BY <1>12, ServerKeepsIdle, CallsGoOn DEF Server, OtherTabs
  <2> QED BY <1>12, <2>1 DEF Server, createvars, PageTyped, Signed
<1>13. CASE ApiCrash /\ UNCHANGED createvars
  BY <1>13, CrashKeepsIdle DEF createvars, PageTyped, Signed
<1>14. CASE UNCHANGED pagevars
  BY <1>14 DEF pagevars, PageTyped, IdleCarriesNothing, Signed
<1>15. CASE Connect \/ Disconnect
  BY <1>15 DEF Connect, Disconnect, apivars, PageTyped, IdleCarriesNothing, Signed
<1>16. CASE Cancel
  <2>1. late' \subseteq Forms
    BY <1>16 DEF Cancel, Unawaited, Signed, Signings
  <2>2. PageTyped'
    BY <1>16 DEF Cancel, NewCreatePage, PageTyped, Inputs
  <2> QED BY <1>16, <2>1, <2>2 DEF Cancel, apivars, IdleCarriesNothing, Signed
<1> QED BY <1>1, <1>2, <1>3, <1>4, <1>5, <1>6, <1>7, <1>8, <1>9, <1>10, <1>11, <1>12,
           <1>13, <1>14, <1>15, <1>16
        DEF CreateNext, User, WalletAndChain

(* Everything the page relies on holds always: above all, a transaction    *)
(* that landed opened the job with the terms of the form that was signed   *)
(* (create-job.tsx).                                                       *)
THEOREM SigningInvariance == CreateSpec => []SigningInv
<1>1. SigningInv /\ [CreateNext]_pagevars => SigningInv'
  BY NextPreservesSigningInv
<1> QED BY <1>1, InitEstablishesSigningInv, PTL DEF CreateSpec

(* The types of the page, its handler, the wallet and the chain            *)
(* (CreateTypeOK).                                                         *)
THEOREM CreateTypes == CreateSpec => []CreateTypeOK
<1> DEFINE Flags == connected \in BOOLEAN /\ open \in BOOLEAN
<1>1. CreateInit => Flags
  BY DEF CreateInit
<1>2. Flags /\ [CreateNext]_pagevars => Flags'
  BY DEF CreateNext, User, Connect, Disconnect, EditForm, RegisterOnly, InitOnChain, Leave,
         Close, Cancel, Open, WalletAndChain, WalletSends, TxLands, RpcReturns, RpcThrows,
         LateTxLands, RegistrationEnds, Server, createvars, pagevars
<1>3. SigningInv /\ Flags => CreateTypeOK
  BY DEF SigningInv, PageTyped, Signed, CreateTypeOK
<1> HIDE DEF Flags
<1> QED BY <1>1, <1>2, <1>3, SigningInvariance, PTL DEF CreateSpec

(* A job is opened once: what the page may say of it, it may go on saying. *)
LEMMA NextPreservesTold ==
    ASSUME SigningInv, Told, [CreateNext]_pagevars
    PROVE  Told'
<1> USE DEF SigningInv
<1>0. UNCHANGED <<create, signing, chain>> => Told'
  BY DEF Told, Signing
<1>1. ASSUME NEW f \in Inputs, EditForm(f)
      PROVE  Told'
  BY <1>1 DEF EditForm, Told, Signing, PageTyped
<1>2. ASSUME NEW c \in Calls, RegisterOnly(c)
      PROVE  Told'
  BY <1>2 DEF RegisterOnly, Told, Signing, PageTyped
<1>3. CASE InitOnChain
  <2>1. CASE Validates(create.form)
    <3>1. /\ create'.initialized = {} /\ create.form.job \in create'.tried
          /\ signing' = [form |-> create.form, tx |-> "Unsent", here |-> TRUE]
      BY <1>3, <2>1 DEF InitOnChain, PageTyped
    <3> QED BY <3>1 DEF Told, Signing
  <2>2. CASE ~Validates(create.form)
    BY <1>3, <2>2 DEF InitOnChain, Told, Signing, PageTyped
  <2> QED BY <2>1, <2>2
<1>4. ASSUME Close, UNCHANGED chain
      PROVE  Told'
  <2>1. create'.initialized = {}
    BY <1>4 DEF Close, NewCreatePage
  <2>2. CASE signing = NoForm
    BY <1>4, <2>1, <2>2 DEF Close, Told, Signing
  <2>3. CASE signing # NoForm
    <3>1. signing \in Signings /\ signing' = [signing EXCEPT !.here = FALSE]
      BY <1>4, <2>3 DEF Close, Signed
    <3>2. ~signing'.here
      BY <3>1 DEF Signings
    <3> QED BY <2>1, <3>2 DEF Told, Signing
  <2> QED BY <2>2, <2>3
<1>5. CASE WalletSends
  <2>1. signing \in Signings /\ signing' = [signing EXCEPT !.tx = "InFlight"]
    BY <1>5 DEF WalletSends, Signed
  <2>2. signing'.form = signing.form /\ signing'.here = signing.here
    BY <2>1 DEF Signings
  <2> QED BY <1>5, <2>2 DEF WalletSends, Told, Signing
<1>6. CASE TxLands
  <2>1. /\ signing \in Signings /\ signing' = [signing EXCEPT !.tx = "Landed"]
        /\ chain' = [chain EXCEPT ![signing.form.job] = Opened(signing.form)]
        /\ UNCHANGED create
    BY <1>6 DEF TxLands, Signed
  <2>2. /\ signing'.form = signing.form /\ signing'.here = signing.here
        /\ signing.form \in Forms
    BY <2>1 DEF Signings
  <2>3. \A j \in JobIds : chain[j] # NoEscrow => chain'[j] # NoEscrow
    BY <2>1, <2>2, OpenedIsTerms DEF Signed
  <2> QED BY <1>6, <2>1, <2>2, <2>3 DEF TxLands, Told, Signing, PageTyped
<1>7. ASSUME NEW c \in Calls, RpcReturns(c)
      PROVE  Told'
  <2>1. /\ signing \in Signings /\ signing.form \in Forms
        /\ chain[signing.form.job] # NoEscrow
    BY <1>7, OpenedIsTerms DEF RpcReturns, Signed, Signings
  <2>2. CASE signing.here
    <3>1. /\ create'.initialized = {signing.form.job}
          /\ create'.tried = create.tried
      BY <1>7, <2>2 DEF RpcReturns, PageTyped
    <3> QED BY <1>7, <2>1, <2>2, <3>1 DEF RpcReturns, Told, Signing
  <2>3. CASE ~signing.here
    BY <1>7, <2>3 DEF RpcReturns, Told, Signing
  <2> QED BY <2>2, <2>3
<1>8. CASE RpcThrows
  BY <1>8 DEF RpcThrows, Told, Signing, PageTyped
<1>9. ASSUME NEW f \in late, LateTxLands(f)
      PROVE  Told'
  <2>1. \A j \in JobIds : chain[j] # NoEscrow => chain'[j] # NoEscrow
    BY <1>9 DEF LateTxLands, Signed
  <2> QED BY <1>9, <2>1 DEF LateTxLands, Told, Signing, PageTyped
<1>10. ASSUME NEW c \in Calls, RegistrationEnds(c)
       PROVE  Told'
  <2>1. CASE Fails(c)
    BY <1>10, <2>1 DEF RegistrationEnds, Told, Signing, PageTyped
  <2> QED BY <1>10, <2>1, <1>4 DEF RegistrationEnds
<1>11. CASE Leave
  BY <1>11, <1>4 DEF Leave
<1>12. ASSUME \/ Open \/ Connect \/ Disconnect
              \/ UNCHANGED createvars \/ UNCHANGED pagevars
       PROVE  Told'
  BY <1>12, <1>0 DEF Open, Connect, Disconnect, createvars, pagevars
<1>13. CASE Cancel
  BY <1>13 DEF Cancel, NewCreatePage, Told, Signing
<1> QED BY <1>1, <1>2, <1>3, <1>5, <1>6, <1>7, <1>8, <1>9, <1>10, <1>11, <1>12, <1>13
        DEF CreateNext, User, WalletAndChain, Server

(* The page says that an escrow was initialized only of a job it asked for *)
(* and that is open on the chain (InitializedIsOpen).                      *)
THEOREM BannerIsTrue == CreateSpec => []InitializedIsOpen
<1>1. CreateInit => Told
  BY DEF CreateInit, NewCreatePage, Told, Signing
<1>2. SigningInv /\ Told /\ [CreateNext]_pagevars => Told'
  BY NextPreservesTold
<1>3. Told => InitializedIsOpen
  <2> SUFFICES ASSUME Told, TxStatus.phase = "done"
               PROVE  TxStatus.job \in create.tried /\ chain[TxStatus.job] # NoEscrow
    BY DEF InitializedIsOpen
  <2>1. ~Signing /\ create.initialized # {}
    BY DEF TxStatus
  <2>2. TxStatus.job \in create.initialized
    BY <2>1 DEF TxStatus
  <2> QED BY <2>2 DEF Told
<1> QED BY <1>1, <1>2, <1>3, SigningInvariance, PTL DEF CreateSpec

-----------------------------------------------------------------------------
(* A page that asked the wallet to open a job is at work on something or   *)
(* shows an error until it is left, and is left without a trace of it.     *)
NotSilent ==
    /\ ~open => create.tried = {}
    /\ open /\ create.tried # {} => create.error \/ Busy

LEMMA NextPreservesNotSilent ==
    ASSUME SigningInv, NotSilent, [CreateNext]_pagevars
    PROVE  NotSilent'
<1> USE DEF SigningInv, PageTyped
<1>0. UNCHANGED <<create, signing, open>> => NotSilent'
  BY DEF NotSilent, Busy, Signing
<1>1. ASSUME NEW f \in Inputs, EditForm(f)
      PROVE  NotSilent'
  BY <1>1 DEF EditForm, NotSilent, Busy, Signing
<1>2. ASSUME NEW c \in Calls, RegisterOnly(c)
      PROVE  NotSilent'
  <2>1. open /\ open'
    BY <1>2 DEF RegisterOnly, Enabled
  <2>2. create'.error \/ create'.creating # NoCall
    BY <1>2, NoCallAssumption DEF RegisterOnly
  <2> QED BY <2>1, <2>2 DEF NotSilent, Busy
<1>3. CASE InitOnChain
  <2>1. open /\ open'
    BY <1>3 DEF InitOnChain, Enabled
  <2>2. CASE Validates(create.form)
    <3>1. signing' = [form |-> create.form, tx |-> "Unsent", here |-> TRUE]
      BY <1>3, <2>2 DEF InitOnChain
    <3>2. create.form \in Forms
      BY <2>2 DEF Validates, Inputs
    <3>3. signing' \in Signings /\ signing'.here
      BY <3>1, <3>2 DEF Signings
    <3> QED BY <2>1, <3>3, CreateJobAssumption DEF NotSilent, Busy, Signing
  <2>3. CASE ~Validates(create.form)
    BY <1>3, <2>1, <2>3 DEF InitOnChain, NotSilent
  <2> QED BY <2>2, <2>3
<1>4. CASE Close
  BY <1>4 DEF Close, NewCreatePage, NotSilent
<1>5. CASE Open
  BY <1>5 DEF Open, NotSilent
<1>6. CASE WalletSends \/ TxLands
  <2>1. signing # NoForm /\ UNCHANGED <<create, open>>
    BY <1>6 DEF WalletSends, TxLands
  <2>2. signing' \in Signings /\ signing'.here = signing.here
    <3>1. \E tx \in {"InFlight", "Landed"} :
             signing \in Signings /\ signing' = [signing EXCEPT !.tx = tx]
      BY <1>6 DEF WalletSends, TxLands, Signed
    <3> QED BY <3>1 DEF Signings
  <2> QED BY <2>1, <2>2, CreateJobAssumption DEF NotSilent, Busy, Signing
<1>7. ASSUME NEW c \in Calls, RpcReturns(c)
      PROVE  NotSilent'
  <2>1. UNCHANGED open
    BY <1>7 DEF RpcReturns
  <2>2. CASE signing.here
    <3>1. create'.creating = c /\ create'.tried = create.tried
      BY <1>7, <2>2 DEF RpcReturns
    <3> QED BY <2>1, <3>1, NoCallAssumption DEF NotSilent, Busy
  <2>3. CASE ~signing.here
    BY <1>7, <2>1, <2>3 DEF RpcReturns, NotSilent, Busy, Signing
  <2> QED BY <2>2, <2>3
<1>8. CASE RpcThrows
  <2>1. UNCHANGED open /\ create'.tried = create.tried
    BY <1>8 DEF RpcThrows
  <2>2. CASE signing.here
    BY <1>8, <2>1, <2>2 DEF RpcThrows, NotSilent
  <2>3. CASE ~signing.here
    BY <1>8, <2>1, <2>3 DEF RpcThrows, NotSilent, Busy, Signing
  <2> QED BY <2>2, <2>3
<1>9. ASSUME NEW c \in Calls, RegistrationEnds(c)
      PROVE  NotSilent'
  BY <1>4, <1>9 DEF RegistrationEnds, NotSilent
<1>10. CASE Leave
  BY <1>4, <1>10 DEF Leave
<1>11. CASE Cancel
  BY <1>11 DEF Cancel, NewCreatePage, NotSilent
<1>12. ASSUME \/ Connect \/ Disconnect \/ \E f \in late : LateTxLands(f)
              \/ UNCHANGED createvars \/ UNCHANGED pagevars
       PROVE  NotSilent'
  BY <1>12, <1>0 DEF Connect, Disconnect, LateTxLands, createvars, pagevars
<1> QED BY <1>1, <1>2, <1>3, <1>5, <1>6, <1>7, <1>8, <1>9, <1>10, <1>11, <1>12
        DEF CreateNext, User, WalletAndChain, Server

(* A job that was opened on the chain from this page and has no row is not *)
(* passed over in silence, whatever is edited, pressed again or lost: the  *)
(* page works on or shows an error (HalfMadeShown).                        *)
THEOREM HalfMadeIsShown == CreateSpec => []HalfMadeShown
<1>1. CreateInit => NotSilent
  BY DEF CreateInit, NewCreatePage, NotSilent
<1>2. SigningInv /\ NotSilent /\ [CreateNext]_pagevars => NotSilent'
  BY NextPreservesNotSilent
<1>3. NotSilent => HalfMadeShown
  BY DEF NotSilent, HalfMadeShown
<1> QED BY <1>1, <1>2, <1>3, SigningInvariance, PTL DEF CreateSpec

-----------------------------------------------------------------------------
AsSigned(c) ==
    /\ call[c].at = "Idle" /\ call'[c].req.op = "create"
    /\ signing # NoForm /\ signing' = NoForm
    => LET q == call'[c].req
       IN  q.job = signing.form.job /\ q.terms.amount = chain[q.job].amount

(* Only a returning rpc() ends a signature and begins a call; any other    *)
(* step that ends one leaves the calls as they are.                        *)
LEMMA StepRegistersAsSigned ==
    ASSUME SigningInv, [CreateNext]_pagevars, NEW c \in Calls
    PROVE  AsSigned(c)
<1> SUFFICES ASSUME call[c].at = "Idle", call'[c].req.op = "create",
                    signing # NoForm, signing' = NoForm
             PROVE  /\ call'[c].req.job = signing.form.job
                    /\ call'[c].req.terms.amount = chain[call'[c].req.job].amount
  BY DEF AsSigned
<1> USE DEF SigningInv
<1>1. call' # call
  BY DEF IdleCarriesNothing
<1>2. ASSUME NEW d \in Calls, RpcReturns(d)
      PROVE  /\ call'[c].req.job = signing.form.job
             /\ call'[c].req.terms.amount = chain[call'[c].req.job].amount
  <2> DEFINE q == createJob(signing.form.job, signing.form.terms)
  <2>1. Arrive(d, q) /\ signing.tx = "Landed"
    BY <1>2 DEF RpcReturns, Send, FormRegistered
  <2>2. \/ \E a : Answer(d, a)
        \/ Goto(d, "Asking", q)
        \/ Goto(d, "Probing", q)
        \/ Goto(d, "Querying", q)
    BY <2>1, Zenon DEF Arrive
  <2>3. \E r : /\ call' = [call EXCEPT ![d] = r] /\ r.at # "Idle"
               /\ r.req = NoRequest \/ r.req = q
    <3>1. ASSUME NEW a, Answer(d, a)
          PROVE  <2>3
      <4> WITNESS [at |-> "Answered", req |-> NoRequest, answer |-> a]
      <4> QED BY <3>1 DEF Answer
    <3>2. ASSUME NEW at \in {"Asking", "Probing", "Querying"}, Goto(d, at, q)
          PROVE  <2>3
      <4> WITNESS [at |-> at, req |-> q, answer |-> NoAnswer]
      <4> HIDE DEF q
      <4> QED BY <3>2 DEF Goto
    <3> QED BY <2>2, <3>1, <3>2
  <2>r. PICK r : /\ call' = [call EXCEPT ![d] = r] /\ r.at # "Idle"
                 /\ r.req = NoRequest \/ r.req = q
    BY <2>3
  <2>4. call'[d] = r /\ \A e \in Calls \ {d} : call'[e] = call[e]
    BY <2>r DEF IdleCarriesNothing
  <2>5. c = d
    BY <2>4 DEF IdleCarriesNothing
  <2>6. call'[c].req = q
    BY <2>r, <2>4, <2>5 DEF NoRequest
  <2>7. q.job = signing.form.job /\ q.terms = signing.form.terms
    BY DEF createJob
  <2>8. signing.form \in Forms /\ chain[signing.form.job] = Opened(signing.form)
    BY <2>1 DEF Signed, Signings
  <2> QED BY <2>6, <2>7, <2>8, OpenedIsTerms
<1>3. ASSUME NEW d \in Calls, RegistrationEnds(d)
      PROVE  FALSE
  BY <1>3, ClosingKeepsSigned DEF RegistrationEnds
<1>4. CASE Leave \/ Cancel \/ Open \/ InitOnChain \/ WalletAndChain
  BY <1>1, <1>2, <1>4
     DEF Leave, Cancel, Open, InitOnChain, WalletAndChain, WalletSends, TxLands, RpcThrows,
         LateTxLands, apivars
<1>5. ASSUME \/ \E f \in Inputs : EditForm(f)
             \/ \E d \in Calls : RegisterOnly(d)
             \/ Connect \/ Disconnect
             \/ UNCHANGED pagevars
             \/ UNCHANGED createvars
      PROVE  FALSE
  BY <1>5 DEF EditForm, RegisterOnly, Connect, Disconnect, pagevars, createvars
<1> QED BY <1>2, <1>3, <1>4, <1>5 DEF CreateNext, User, Server

(* The row that follows a signature is for the job and the amount that     *)
(* were signed, for any forms, ids and amounts, and any number of calls of *)
(* other tabs (RegisteredAsSigned).                                        *)
THEOREM SignatureIsRegistered == CreateSpec => RegisteredAsSigned
<1>1. SigningInv /\ [CreateNext]_pagevars
      => [ \A c \in Calls :
          /\ call[c].at = "Idle" /\ call'[c].req.op = "create"
          /\ signing # NoForm /\ signing' = NoForm
          => LET q == call'[c].req
             IN  q.job = signing.form.job /\ q.terms.amount = chain[q.job].amount ]_pagevars
  BY StepRegistersAsSigned DEF AsSigned
<1> QED BY <1>1, SigningInvariance, PTL DEF CreateSpec, RegisteredAsSigned
=============================================================================
