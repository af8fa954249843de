---------------------------- MODULE ChampionPage ----------------------------
(***************************************************************************)
(* The public page a visitor without an account donates on                 *)
(* (champion-page.controller), with the script it runs in the browser.     *)
(* The server looks for the visitor's account by e-mail address, then by   *)
(* phone number, and creates one; the browser opens Paystack with the      *)
(* reference the server gave, and asks the server to confirm.  Between any *)
(* two of these steps are those of other pages, and Paystack's webhook.    *)
(***************************************************************************)
EXTENDS Naturals, FiniteSets

CONSTANTS
    Tabs,           \* pages open in browsers
    Emails,         \* e-mail addresses typed
    Phones,         \* phone numbers typed
    ChargeRefs      \* bound: references given out

ASSUME TypedAssumption == "none" \notin Emails \cup Phones
ASSUME RefsAssumption == ChargeRefs \subseteq Nat \ {0}

VARIABLES
    accounts,       \* the rows of users: <<email, phone>>
    tab,            \* each page: what it shows or the step the server is at, what was typed
    pending,        \* the rows of transactions: reference |-> the account it is for
    charged,        \* references Paystack has taken the money for
    donated,        \* references with a donation
    refused,        \* history: pages told that the donor could not be recorded
    unlucky         \* history: pages whose server lost a number or name to another row, or met an error

championVars == <<accounts, tab, pending, charged, donated, refused, unlucky>>

Missing == "none"
Anybody == <<Missing, Missing>>
DonorRows == Emails \X (Phones \cup {Missing})
Shown == {"ready", "paying", "confirming", "thanked"}
Serving == {"email", "phone", "collision", "create", "suffixed", "retry", "insert"}
NoRef == 0
Blank == [at |-> "ready", typed |-> Anybody, account |-> Anybody, ref |-> NoRef]

ChampionTypeOK ==
    /\ accounts \subseteq DonorRows
    /\ tab \in [Tabs -> [at : Shown \cup Serving, typed : DonorRows \cup {Anybody},
                         account : DonorRows \cup {Anybody}, ref : ChargeRefs \cup {NoRef}]]
    /\ DOMAIN pending \subseteq ChargeRefs /\ \A ref \in DOMAIN pending : pending[ref] \in accounts
    /\ donated \subseteq charged /\ charged \subseteq ChargeRefs
    /\ refused \subseteq Tabs /\ unlucky \subseteq Tabs
    /\ \A a, b \in accounts : a[1] = b[1] \/ (a[2] = b[2] /\ a[2] # Missing) => a = b

ChampionInit ==
    /\ accounts = {} /\ tab = [t \in Tabs |-> Blank] /\ pending = << >>
    /\ charged = {} /\ donated = {} /\ refused = {} /\ unlucky = {}

\* Back at the start nothing is kept: the next click takes what is typed then.
Goes(t, at) == tab' = [tab EXCEPT ![t] = IF at = "ready" THEN Blank ELSE [@ EXCEPT !.at = at]]
Resolved(t, account) == tab' = [tab EXCEPT ![t].at = "insert", ![t].account = account]
Payments_ == <<pending, charged, donated>>

-----------------------------------------------------------------------------
(* The server: initChampionDonation *)

\* The button is disabled from here on.
click(t, typed) ==
    /\ tab[t].at = "ready" /\ tab' = [tab EXCEPT ![t] = [Blank EXCEPT !.at = "email", !.typed = typed]]
    /\ UNCHANGED <<accounts, Payments_, refused, unlucky>>

\* Only an active campaign is donated to; the account is looked for by e-mail address.
FindByEmail(t) ==
    /\ tab[t].at = "email" /\ UNCHANGED <<accounts, Payments_, refused, unlucky>>
    /\ \/ Goes(t, "ready")
       \/ \E a \in accounts : a[1] = tab[t].typed[1] /\ Resolved(t, a)
       \/ (\A a \in accounts : a[1] # tab[t].typed[1]) /\ Goes(t, "phone")

\* Then by phone number, whoever's e-mail address it has; hashing a password takes time.
FindByPhone(t) ==
    /\ tab[t].at = "phone" /\ UNCHANGED <<accounts, Payments_, refused, unlucky>>
    /\ \/ \E a \in accounts : a[2] = tab[t].typed[2] /\ Resolved(t, a)
       \/ (\A a \in accounts : a[2] # tab[t].typed[2]) /\ Goes(t, "collision")

\* A number taken meanwhile gets a suffix nobody has typed.
CheckPhone(t) ==
    /\ tab[t].at = "collision" /\ UNCHANGED <<accounts, Payments_, refused, unlucky>>
    /\ Goes(t, IF \E a \in accounts : a[2] = tab[t].typed[2] THEN "suffixed" ELSE "create")

\* The e-mail address, the number and the generated anonymous name are unique: an insert
\* that meets a row with one of them fails, as it may with any other error.
CreateDonor(t) ==
    LET new == IF tab[t].at = "create" THEN tab[t].typed ELSE <<tab[t].typed[1], Missing>>
        email == \E a \in accounts : a[1] = new[1]
        number == new[2] # Missing /\ \E a \in accounts : a[2] = new[2] IN
    /\ tab[t].at \in {"create", "suffixed"} /\ UNCHANGED <<Payments_, refused>>
    /\ \/ ~email /\ ~number /\ accounts' = accounts \cup {new} /\ Resolved(t, new) /\ UNCHANGED unlucky
       \/ ~email /\ Goes(t, "retry") /\ unlucky' = unlucky \cup {t} /\ UNCHANGED accounts
       \/ email /\ Goes(t, "retry") /\ UNCHANGED <<accounts, unlucky>>

\* "A concurrent init created the same email": it is looked for again, and nothing else.
RefetchByEmail(t) ==
    /\ tab[t].at = "retry" /\ UNCHANGED <<accounts, Payments_, unlucky>>
    /\ \/ \E a \in accounts : a[1] = tab[t].typed[1] /\ Resolved(t, a) /\ UNCHANGED refused
       \/ /\ \A a \in accounts : a[1] # tab[t].typed[1]
          /\ Goes(t, "ready") /\ refused' = refused \cup {t}

\* Any error of the lookups: the donor could not be recorded.
LookupFails(t) ==
    /\ tab[t].at \in {"email", "phone", "collision", "retry"} /\ Goes(t, "ready")
    /\ refused' = refused \cup {t} /\ unlucky' = unlucky \cup {t} /\ UNCHANGED <<accounts, Payments_>>

\* The pending transaction, with a new reference; where the insert fails the page says so.
InsertPending(t) ==
    /\ tab[t].at = "insert" /\ UNCHANGED <<accounts, charged, donated, refused, unlucky>>
    /\ \/ Goes(t, "ready") /\ UNCHANGED pending
       \/ \E ref \in ChargeRefs \ DOMAIN pending :
            /\ \A q \in ChargeRefs \ DOMAIN pending : ref <= q
            /\ pending' = [q \in DOMAIN pending \cup {ref} |-> IF q = ref THEN tab[t].account ELSE pending[q]]
            /\ tab' = [tab EXCEPT ![t].at = "paying", ![t].ref = ref]

-----------------------------------------------------------------------------
(* The browser and Paystack *)

\* Paystack takes the money and calls the page back.
PaystackCallback(t) ==
    /\ tab[t].at = "paying" /\ charged' = charged \cup {tab[t].ref} /\ Goes(t, "confirming")
    /\ UNCHANGED <<accounts, pending, donated, refused, unlucky>>

\* A transfer may arrive when the window has been closed.
PaystackLater(ref) ==
    /\ ref \in DOMAIN pending \ charged /\ charged' = charged \cup {ref}
    /\ UNCHANGED <<accounts, tab, pending, donated, refused, unlucky>>

\* The window is closed without a payment, and the button enabled again.
onClose(t) ==
    /\ tab[t].at = "paying" /\ Goes(t, "ready") /\ UNCHANGED <<accounts, Payments_, refused, unlucky>>

\* The page asks to confirm, and reads whatever JSON it is answered: an error is one.
\* Only when there is no answer does it say that it could not confirm.
confirm(t) ==
    /\ tab[t].at = "confirming" /\ UNCHANGED <<accounts, pending, charged, refused, unlucky>>
    /\ donated' \in {donated, donated \cup ({tab[t].ref} \cap charged)}
    /\ \/ Goes(t, "thanked")
       \/ Goes(t, "ready")

\* charge.success, delivered until it is handled.
PaystackWebhook(ref) ==
    /\ ref \in charged /\ donated' = donated \cup {ref}
    /\ UNCHANGED <<accounts, tab, pending, charged, refused, unlucky>>

\* The visitor leaves the page, or opens it again.
Leave(t) ==
    /\ tab[t].at \in {"paying", "confirming", "thanked"} /\ tab' = [tab EXCEPT ![t] = Blank]
    /\ UNCHANGED <<accounts, Payments_, refused, unlucky>>

ChampionNext ==
    \/ \E t \in Tabs :
        \/ FindByEmail(t) \/ FindByPhone(t) \/ CheckPhone(t) \/ CreateDonor(t) \/ RefetchByEmail(t) \/ LookupFails(t)
        \/ InsertPending(t) \/ PaystackCallback(t) \/ onClose(t) \/ confirm(t) \/ Leave(t)
        \/ \E typed \in Emails \X Phones : click(t, typed)
    \/ \E ref \in ChargeRefs : PaystackLater(ref) \/ PaystackWebhook(ref)

-----------------------------------------------------------------------------

\* What a charge is booked to is the visitor's own account: it has the address or the
\* number they typed, whatever other visitors did between the lookups and the insert.
BookedToVisitor ==
    \A t \in Tabs : tab[t].at \in {"insert", "paying", "confirming"} =>
        tab[t].account[1] = tab[t].typed[1] \/ tab[t].account[2] = tab[t].typed[2]

\* No visitor is turned away because somebody with the same address came at the same
\* time; only a number or a generated name lost to another row does that, or an error
\* of the database.
AddressTurnsNobodyAway == refused \subseteq unlucky

\* Every charge has its pending row, so that the webhook and the confirmation find it,
\* and a page says thanks only after a charge.
ChargeHasARow ==
    /\ charged \subseteq DOMAIN pending
    /\ \A t \in Tabs : tab[t].at = "thanked" => tab[t].ref \in charged

\* The page says "Your contribution to ... was received".  It says so as well when the
\* confirmation was answered with an error.
ThankedIsReceived == \A t \in Tabs : tab[t].at = "thanked" => tab[t].ref \in donated
=============================================================================
