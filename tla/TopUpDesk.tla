---- MODULE TopUpDesk ----
(* Buying points as a tab shows it: the packages, the checkout page with Stripe's *)
(* form, and the wallet, which asks what became of the payment.  The packages are *)
(* changed, sessions expire, the account of the tab changes, every answer is lost *)
(* or late, and pages are left while their calls are under way.  How a payment is *)
(* created and credited is TopUp; here each of the two is one step.               *)
EXTENDS Naturals, FiniteSets, Sequences

CONSTANTS
  DeskAccounts,  \* members that use the tab
  MaxPayments,
  MaxTerms,      \* how often the package has other terms
  MaxOut,        \* calls that are out at once
  MaxAsks        \* how often a status is asked for: 10

ASSUME DeskAssumption ==
  /\ MaxPayments \in Nat /\ MaxOut \in Nat
  /\ MaxTerms \in Nat \ {0} /\ MaxAsks \in Nat \ {0}

VARIABLES
  offer,        \* the package: its terms, and whether it is active
  paid,         \* payments, by their numbers
  account,      \* who is signed in in the tab
  modal,        \* TopUpModal
  route,        \* the page, and the payment in its address
  desk,         \* what the page holds
  deskCalls,    \* calls under way
  shownWallet,  \* payments whose points are in the balance on display
  everShown     \* history: those that were in it since the account signed in

deskVars == <<offer, paid, account, modal, route, desk, deskCalls, shownWallet, everShown>>

Numbers == 1..MaxPayments
NoModal == [step |-> "closed", seen |-> 0, key |-> 0]
NoDesk == [form |-> "none", of |-> 0, terms |-> 0, owner |-> "none", busy |-> FALSE,
           notice |-> "none", about |-> 0, asks |-> 0]

(* A call, with the account it is sent as. *)
Sent(kind, n, key) == [kind |-> kind, of |-> n, key |-> key, as |-> account, shown |-> TRUE,
                       answer |-> "none", data |-> 0, credits |-> {}]

(* Mutant: what was asked for a page that is gone still changes the tab. *)
Leave_Listening(calls, stays) == calls

(* cancelled = true, or the component is gone: answers of reads are not looked at, *)
(* a wallet is shown without a notice, and a form that is gone shows no error.  On *)
(* the wallet's own page only the questions about a payment end.                  *)
Leave(calls, stays) ==
  {c \in calls : c.kind = "create" \/ (stays /\ c.kind \in {"packages", "retry"})}
    \cup {[c EXCEPT !.shown = FALSE] : c \in {d \in calls : d.kind = "confirm"}}
    \cup {[c EXCEPT !.kind = "wallet", !.of = 0] :
            c \in {d \in calls : d.kind = "wallet" \/ (~stays /\ d.kind = "retry")}}

(* A call can be sent: not too many are out, and none like it. *)
Room(calls, kind) == Cardinality(calls) < MaxOut /\ ~\E c \in calls : c.kind = kind /\ c.of = 0

DeskInit ==
  /\ offer = [terms |-> 1, active |-> TRUE]
  /\ paid = <<>> /\ account \in DeskAccounts
  /\ modal = NoModal /\ route = [page |-> "wallet", of |-> 0] /\ desk = NoDesk
  /\ deskCalls = {} /\ shownWallet = {} /\ everShown = {}

-----------------------------------------------------------------------------
(* The API and Stripe *)

(* createTopUpPackage with a code that exists, and retireTopUpPackage. *)
ChangePackage ==
  /\ \/ offer.terms < MaxTerms /\ offer' = [terms |-> offer.terms + 1, active |-> TRUE]
     \/ offer.active /\ offer' = [offer EXCEPT !.active = FALSE]
  /\ UNCHANGED <<paid, account, modal, route, desk, deskCalls, shownWallet, everShown>>

Answered(c, answer, data, credits) ==
  deskCalls' = (deskCalls \ {c})
    \cup {[c EXCEPT !.answer = answer, !.data = data, !.credits = credits]}

(* createCheckoutSession: the answer that a key has, or a payment on the terms of  *)
(* now, which fails if Stripe makes no session.                                   *)
ServeCreate(c) ==
  /\ c.kind = "create" /\ c.answer = "none"
  /\ LET known == {n \in DOMAIN paid : paid[n].key = c.key /\ paid[n].status # "failed"} IN
     \/ \E n \in known : Answered(c, "payment", n, {}) /\ UNCHANGED paid
     \/ /\ known = {} /\ offer.active /\ Len(paid) < MaxPayments
        /\ \E made \in BOOLEAN :
             /\ paid' = Append(paid, [owner |-> c.as, key |-> c.key, terms |-> offer.terms,
                  status |-> IF made THEN "checkout_created" ELSE "failed",
                  session |-> IF made THEN "open" ELSE "none", late |-> FALSE])
             /\ IF made THEN Answered(c, "payment", Len(paid'), {}) ELSE Answered(c, "error", 0, {})
     \/ known = {} /\ ~offer.active /\ Answered(c, "error", 0, {}) /\ UNCHANGED paid
  /\ UNCHANGED <<offer, account, modal, route, desk, shownWallet, everShown>>

TermsOf(n) == paid[n].terms

(* getCheckoutSession *)
ServeLoad(c) ==
  /\ c.kind = "load" /\ c.answer = "none"
  /\ LET own == paid[c.of].owner = c.as IN
       IF own /\ (paid[c.of].status = "paid" \/ paid[c.of].session = "complete")
         THEN Answered(c, "complete", 0, {})
       ELSE IF own /\ paid[c.of].status = "checkout_created" /\ paid[c.of].session = "open"
                /\ ~paid[c.of].late
         THEN Answered(c, "open", TermsOf(c.of), {})
       ELSE Answered(c, "error", 0, {})
  /\ UNCHANGED <<offer, paid, account, modal, route, desk, shownWallet, everShown>>

(* getTopUpPackages, getTopUp and getWallet with its transactions *)
ServeRead(c) ==
  /\ c.kind \in {"packages", "status", "wallet", "retry"} /\ c.answer = "none"
  /\ CASE c.kind = "packages" -> Answered(c, "read", IF offer.active THEN offer.terms ELSE 0, {})
       [] c.kind = "status" ->
            Answered(c, IF paid[c.of].owner = c.as THEN paid[c.of].status ELSE "error", 0, {})
       [] OTHER -> Answered(c, "read", 0,
            {n \in DOMAIN paid : paid[n].owner = c.as /\ paid[n].status = "paid"})
  /\ UNCHANGED <<offer, paid, account, modal, route, desk, shownWallet, everShown>>

(* Stripe takes the payment while the session is open. *)
StripeConfirms(c) ==
  /\ c.kind = "confirm" /\ c.answer = "none"
  /\ \/ /\ paid[c.of].session = "open"
        /\ paid' = [paid EXCEPT ![c.of].session = "complete"]
        /\ Answered(c, "confirmed", 0, {})
     \/ UNCHANGED paid /\ Answered(c, "error", 0, {})
  /\ UNCHANGED <<offer, account, modal, route, desk, shownWallet, everShown>>

(* The time of expiry comes, and Stripe closes the session at it or later. *)
SessionAges(n) ==
  /\ paid[n].session = "open"
  /\ paid' = IF paid[n].late THEN [paid EXCEPT ![n].session = "expired"]
             ELSE [paid EXCEPT ![n].late = TRUE]
  /\ UNCHANGED <<offer, account, modal, route, desk, deskCalls, shownWallet, everShown>>

(* The event of a completed session is processed. *)
WebhookCredits(n) ==
  /\ paid[n].session = "complete" /\ paid[n].status = "checkout_created"
  /\ paid' = [paid EXCEPT ![n].status = "paid"]
  /\ UNCHANGED <<offer, account, modal, route, desk, deskCalls, shownWallet, everShown>>

(* No answer: the call did its work or did not, and the page sees an error. *)
LoseCall(c) ==
  /\ c.answer # "error" /\ Answered(c, "error", 0, {})
  /\ UNCHANGED <<offer, paid, account, modal, route, desk, shownWallet, everShown>>

-----------------------------------------------------------------------------
(* The tab *)

(* A page opens: what the last one held is gone, and its own call is sent.  The    *)
(* verification is the wallet's page with a payment in its address.               *)
Open(page, n, calls) ==
  LET stays == {page, route.page} \subseteq {"wallet", "verify"}
      kept == Leave(calls, stays) IN
  /\ route' = [page |-> page, of |-> n]
  /\ modal' = IF stays THEN modal ELSE NoModal
  /\ desk' = IF page = "checkout" THEN [NoDesk EXCEPT !.form = "loading"]
             ELSE IF stays THEN [desk EXCEPT !.asks = 0] ELSE NoDesk
  /\ page # "wallet" => Cardinality(kept) < MaxOut
  /\ deskCalls' = kept \cup (IF page = "checkout" THEN {Sent("load", n, 0)}
                             ELSE IF page = "verify" THEN {Sent("status", n, 0)} ELSE {})

(* Another page, or an address that the browser remembers. *)
Go(page, n) ==
  /\ page = "wallet" <=> n = 0
  /\ page = "checkout" => n \in DOMAIN paid
  /\ route # [page |-> page, of |-> n]
  /\ Open(page, n, deskCalls)
  /\ UNCHANGED <<offer, paid, account, shownWallet, everShown>>

(* Sign-out and sign-in: the page is mounted anew for its owner, and reads of the  *)
(* account before it are not applied.                                             *)
SwitchAccount(a) ==
  /\ a # account /\ account' = a
  /\ modal' = NoModal /\ shownWallet' = {} /\ everShown' = {}
  /\ deskCalls' = {c \in Leave(deskCalls, FALSE) : c.kind # "wallet"}
       \cup {[c EXCEPT !.as = a] : c \in {Sent("wallet", 0, 0)}
               \cup (IF route.page = "checkout" THEN {Sent("load", route.of, 0)} ELSE {})}
  /\ route' = IF route.page = "checkout" THEN route ELSE [page |-> "wallet", of |-> 0]
  /\ desk' = IF route.page = "checkout" THEN [NoDesk EXCEPT !.form = "loading"] ELSE NoDesk
  /\ UNCHANGED <<offer, paid>>

(* A refund, a purchase or the restored session asks for the wallet. *)
RefreshWallet ==
  /\ Room(deskCalls, "wallet") /\ deskCalls' = deskCalls \cup {Sent("wallet", 0, 0)}
  /\ UNCHANGED <<offer, paid, account, modal, route, desk, shownWallet, everShown>>

OpenModal ==
  /\ route.page # "checkout" /\ modal = NoModal /\ Room(deskCalls, "packages")
  /\ modal' = [NoModal EXCEPT !.step = "choose"]
  /\ deskCalls' = deskCalls \cup {Sent("packages", 0, 0)}
  /\ UNCHANGED <<offer, paid, account, route, desk, shownWallet, everShown>>

CloseModal ==
  /\ modal.step = "choose" /\ modal' = NoModal
  /\ deskCalls' = {c \in deskCalls : c.kind # "packages"}
  /\ UNCHANGED <<offer, paid, account, route, desk, shownWallet, everShown>>

(* One key for one choice, for as long as the modal stays. *)
StartCheckout ==
  /\ modal.step = "choose" /\ modal.seen # 0 /\ Room(deskCalls, "create")
  /\ LET key == IF modal.key # 0 THEN modal.key
                ELSE 1 + Cardinality({paid[n].key : n \in DOMAIN paid}
                                       \cup {c.key : c \in {d \in deskCalls : d.kind = "create"}}) IN
       /\ key <= MaxPayments
       /\ modal' = [modal EXCEPT !.step = "busy", !.key = key]
       /\ deskCalls' = deskCalls \cup {Sent("create", 0, key)}
  /\ UNCHANGED <<offer, paid, account, route, desk, shownWallet, everShown>>

(* Mount, or Retry. *)
RetryLoad ==
  /\ route.page = "checkout" /\ desk.form # "loading" /\ ~desk.busy /\ Room(deskCalls, "load")
  /\ desk' = [NoDesk EXCEPT !.form = "loading"]
  /\ deskCalls' = Leave(deskCalls, FALSE) \cup {Sent("load", route.of, 0)}
  /\ UNCHANGED <<offer, paid, account, modal, route, shownWallet, everShown>>

(* PAYMENT_LOAD_TIMEOUT_MS, of the session or of Stripe's elements. *)
LoadTimesOut ==
  /\ desk.form \in {"loading", "form"} /\ ~desk.busy
  /\ desk' = [NoDesk EXCEPT !.form = "error"]
  /\ deskCalls' = Leave(deskCalls, FALSE)
  /\ UNCHANGED <<offer, paid, account, modal, route, shownWallet, everShown>>

(* The timer of the expiry runs whatever the form is doing. *)
FormExpires ==
  /\ desk.form = "form" /\ paid[desk.of].late
  /\ desk' = [NoDesk EXCEPT !.form = "expired"]
  /\ deskCalls' = Leave(deskCalls, FALSE)
  /\ UNCHANGED <<offer, paid, account, modal, route, shownWallet, everShown>>

(* submitting.current *)
ConfirmPayment ==
  /\ desk.form = "form" /\ ~desk.busy /\ Room(deskCalls, "confirm")
  /\ desk' = [desk EXCEPT !.busy = TRUE]
  /\ deskCalls' = deskCalls \cup {Sent("confirm", desk.of, 0)}
  /\ UNCHANGED <<offer, paid, account, modal, route, shownWallet, everShown>>

(* Retry wallet refresh. *)
RetryRefresh ==
  /\ desk.notice = "unrefreshed" /\ Room(deskCalls, "wallet")
  /\ ~\E c \in deskCalls : c.kind = "retry"
  /\ deskCalls' = deskCalls \cup {Sent("retry", desk.about, 0)}
  /\ UNCHANGED <<offer, paid, account, modal, route, desk, shownWallet, everShown>>

-----------------------------------------------------------------------------
(* Answers *)

(* The last list asked for is shown; the payment that was created is opened, even  *)
(* if the modal is gone.                                                          *)
ReceivePackages(c) ==
  /\ c.kind = "packages"
  /\ modal' = IF c.answer = "read" THEN [modal EXCEPT !.seen = c.data] ELSE modal
  /\ deskCalls' = deskCalls \ {c}
  /\ UNCHANGED <<route, desk>>

ReceiveCreated(c) ==
  /\ c.kind = "create"
  /\ IF c.answer = "payment" THEN Open("checkout", c.data, deskCalls \ {c})
     ELSE /\ modal' = IF modal.step = "busy" /\ modal.key = c.key
                        THEN [modal EXCEPT !.step = "choose"] ELSE modal
          /\ deskCalls' = deskCalls \ {c} /\ UNCHANGED <<route, desk>>

(* A session that is complete leads to its verification. *)
ReceiveLoad(c) ==
  /\ c.kind = "load"
  /\ IF c.answer = "complete" THEN Open("verify", c.of, deskCalls \ {c})
     ELSE /\ desk' = IF c.answer = "error" THEN [NoDesk EXCEPT !.form = "error"]
                     ELSE [NoDesk EXCEPT !.form = "form", !.of = c.of, !.terms = c.data, !.owner = c.as]
          /\ deskCalls' = deskCalls \ {c} /\ UNCHANGED <<modal, route>>

(* A confirmation leads to the verification from wherever the tab is by then. *)
ReceiveConfirmed(c) ==
  /\ c.kind = "confirm"
  /\ IF c.answer = "confirmed" THEN Open("verify", c.of, deskCalls \ {c})
     ELSE /\ desk' = IF c.shown THEN [desk EXCEPT !.busy = FALSE] ELSE desk
          /\ deskCalls' = deskCalls \ {c} /\ UNCHANGED <<modal, route>>

(* reconcile: a payment that is paid is shown once the wallet was read again; an  *)
(* error ends the questions.  A payment that failed never got a session, so no    *)
(* page knows its number, and no handler writes `cancelled' or `expired'.         *)
ReceiveStatus(c) ==
  /\ c.kind = "status"
  /\ LET rest == deskCalls \ {c}
         says(notice) == desk' = [desk EXCEPT !.notice = notice, !.about = c.of, !.asks = @ + 1] IN
     CASE c.answer = "error" -> says("unknown") /\ deskCalls' = rest
       [] c.answer = "paid" -> deskCalls' = rest \cup {Sent("wallet", c.of, 0)} /\ UNCHANGED desk
       [] OTHER -> /\ says("verifying")
                   /\ deskCalls' = IF desk.asks + 1 < MaxAsks THEN rest \cup {Sent("status", c.of, 0)}
                                  ELSE rest
  /\ UNCHANGED <<modal, route>>

Told(c) == IF c.answer = "error" THEN "unrefreshed" ELSE "refreshed"

(* The wallet that was read is shown, whichever was asked for last; the page that *)
(* asked for it still has to be there to say so.                                  *)
ReceiveWallet(c) ==
  /\ c.kind \in {"wallet", "retry"}
  /\ IF c.answer = "read" THEN shownWallet' = c.credits /\ everShown' = everShown \cup c.credits
     ELSE UNCHANGED <<shownWallet, everShown>>
  /\ IF c.of = 0 THEN UNCHANGED <<route, desk>>
     ELSE /\ desk' = [desk EXCEPT !.notice = Told(c), !.about = c.of]
          /\ route' = IF c.kind = "wallet" THEN [page |-> "wallet", of |-> 0] ELSE route
  /\ deskCalls' = deskCalls \ {c}
  /\ UNCHANGED modal

Receive(c) ==
  /\ c.answer # "none"
  /\ \/ /\ ReceivePackages(c) \/ ReceiveCreated(c) \/ ReceiveLoad(c) \/ ReceiveConfirmed(c)
             \/ ReceiveStatus(c)
        /\ UNCHANGED <<shownWallet, everShown>>
     \/ ReceiveWallet(c)
  /\ UNCHANGED <<offer, paid, account>>

DeskNext ==
  \/ ChangePackage \/ RefreshWallet \/ OpenModal \/ CloseModal \/ StartCheckout
  \/ RetryLoad \/ LoadTimesOut \/ FormExpires \/ ConfirmPayment \/ RetryRefresh
  \/ \E a \in DeskAccounts : SwitchAccount(a)
  \/ \E page \in {"wallet", "checkout"}, n \in Numbers \cup {0} : Go(page, n)
  \/ \E n \in DOMAIN paid : SessionAges(n) \/ WebhookCredits(n)
  \/ \E c \in deskCalls :
       \/ ServeCreate(c) \/ ServeLoad(c) \/ ServeRead(c) \/ StripeConfirms(c)
       \/ LoseCall(c) \/ Receive(c)

DeskSpec == DeskInit /\ [][DeskNext]_deskVars

-----------------------------------------------------------------------------
(* What the tab says of a payment is so: points that are "added" were credited,   *)
(* and shown at some time since (the notice only follows a read of the wallet, and *)
(* a wallet that was read earlier may replace it: refreshWallet keeps no order,   *)
(* PlatformContext.jsx:357-371); what is being verified is complete at Stripe; the *)
(* form takes the payment of its address, for the account that is signed in and   *)
(* on the terms it shows, and says that it expired only when it did               *)
(* (WalletAdminPages.jsx:59-83; TopUpCheckoutPage.jsx:41 "An account change must   *)
(* discard the previous owner's in-memory client secret").                        *)
PaymentsToldTruly ==
  /\ desk.notice \in {"refreshed", "unrefreshed"} => paid[desk.about].status = "paid"
  /\ desk.notice = "refreshed" => desk.about \in everShown
  /\ desk.notice = "verifying" => paid[desk.about].session = "complete"
  /\ desk.form = "form" =>
       /\ desk.of = route.of /\ route.page = "checkout"
       /\ desk.owner = account /\ paid[desk.of].owner = account
       /\ desk.terms = paid[desk.of].terms
  /\ desk.form = "expired" => paid[route.of].late
  /\ \A n \in DOMAIN paid : paid[n].status = "paid" => paid[n].session = "complete"
====
