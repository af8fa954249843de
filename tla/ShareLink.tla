----------------------------- MODULE ShareLink -----------------------------
(***************************************************************************)
(* Champions and the short links they share (campaign-amplifier.service,   *)
(* dynamic-link.service).  Somebody claims to be a champion of a campaign, *)
(* gets a code, and a link to share; the code in the link is what a        *)
(* donation is attributed by.  A link is looked for and then inserted, a   *)
(* project is read and then cached, with other requests in between.        *)
(***************************************************************************)
EXTENDS Naturals, Sequences, FiniteSets

CONSTANTS
    Shared,         \* campaigns
    Champions,      \* people who claim to be champions
    LinkCalls,      \* requests served at the same time
    MaxLinks,       \* bound: rows of dynamic_links
    MaxSwitches     \* bound: activations and deactivations of the project

ASSUME LinksAssumption == MaxLinks \in Nat /\ MaxSwitches \in Nat

VARIABLES
    links,          \* the rows of dynamic_links: the campaign and the code in the metadata
    amplifiers,     \* the rows of campaign_amplifiers: the code <<campaign, champion>>
    linking,        \* what each request does and has read
    shares,         \* history: what each champion was last given to share
    active,         \* the project's row is active
    loaded,         \* the project this server has cached
    switching,      \* reloads whose query was answered and not yet assigned
    crossedReload,  \* history: two reloads overlapped
    reloadFailed,   \* history: the last reload's query failed, its row being saved
    doubled,        \* history: per campaign, links inserted while another request was looking
    switches        \* counter of the bound

linkVars == <<links, amplifiers, linking, shares, active, loaded, switching, crossedReload, reloadFailed, doubled, switches>>

Codes == Shared \X Champions
NoCode == << >>
NoLink == 0
NoCampaign == << >>
LinkCall == [op : {"none", "claim", "generate", "insert"}, campaign : Shared \cup {NoCampaign}, ref : Codes \cup {NoCode}]
NoCall == [op |-> "none", campaign |-> NoCampaign, ref |-> NoCode]

LinkTypeOK ==
    /\ links \in Seq([campaign : Shared, ref : Codes \cup {NoCode}]) /\ Len(links) <= MaxLinks
    /\ amplifiers \subseteq Codes /\ linking \in [LinkCalls -> LinkCall]
    /\ shares \subseteq [code : Codes, link : 0..MaxLinks]
    /\ {active, loaded, crossedReload, reloadFailed} \subseteq BOOLEAN
    /\ switching \in [LinkCalls -> {"none", "saved", "on", "off"}]
    /\ doubled \in [Shared -> 0..MaxLinks] /\ switches \in 0..MaxSwitches
    /\ \A s \in shares : s.code \in amplifiers /\ s.link \in 0..Len(links)

\* onModuleInit has loaded the project, if it is there and active.
LinkInit ==
    /\ links = << >> /\ amplifiers = {} /\ linking = [r \in LinkCalls |-> NoCall] /\ shares = {}
    /\ active \in BOOLEAN /\ loaded = active /\ switching = [r \in LinkCalls |-> "none"]
    /\ crossedReload = FALSE /\ reloadFailed = FALSE /\ doubled = [c \in Shared |-> 0] /\ switches = 0

projectVars == <<active, loaded, switching, crossedReload, reloadFailed, switches>>
IdleCall(r) == linking[r].op = "none" /\ switching[r] = "none"

-----------------------------------------------------------------------------
(* The link of a resource *)

\* What a request answers: a champion gets the link, or the bare address of the
\* campaign with the champion's own code.
Answer(r, link) ==
    /\ linking' = [linking EXCEPT ![r] = NoCall]
    /\ shares' = IF linking[r].ref = NoCode THEN shares
               ELSE {s \in shares : s.code # linking[r].ref} \cup {[code |-> linking[r].ref, link |-> link]}

LinksOf(c) == {i \in DOMAIN links : links[i].campaign = c}

\* A link there is already is the answer, any of them; otherwise one will be
\* inserted.  Without a project there is none.
generate(r) ==
    /\ linking[r].op = "generate" /\ UNCHANGED <<links, amplifiers, doubled, projectVars>>
    /\ \/ ~loaded /\ Answer(r, NoLink)
       \/ loaded /\ \E i \in LinksOf(linking[r].campaign) : Answer(r, i)
       \/ /\ loaded /\ LinksOf(linking[r].campaign) = {}
          /\ linking' = [linking EXCEPT ![r].op = "insert"] /\ UNCHANGED shares

\* The row carries the code of whoever asked first; a failure is an empty address.
InsertLink(r) ==
    LET c == linking[r].campaign
        others == \E q \in LinkCalls \ {r} : linking[q].op = "insert" /\ linking[q].campaign = c IN
    /\ linking[r].op = "insert" /\ UNCHANGED <<amplifiers, projectVars>>
    /\ \/ /\ Len(links) < MaxLinks
          /\ links' = Append(links, [campaign |-> c, ref |-> linking[r].ref])
          /\ doubled' = [doubled EXCEPT ![c] = IF others THEN @ + 1 ELSE @]
          /\ Answer(r, Len(links) + 1)
       \/ Answer(r, NoLink) /\ UNCHANGED <<links, doubled>>

\* The new campaign's own link, without a code.
forCampaign(r, c) ==
    /\ IdleCall(r) /\ linking' = [linking EXCEPT ![r] = [op |-> "generate", campaign |-> c, ref |-> NoCode]]
    /\ UNCHANGED <<links, amplifiers, shares, doubled, projectVars>>

-----------------------------------------------------------------------------
(* Champions *)

\* A champion there is already shares again; the others get a code, unless five
\* candidates are taken.
claim(r, code) ==
    /\ IdleCall(r)
    /\ linking' = [linking EXCEPT ![r] = [op |-> IF code \in amplifiers THEN "generate" ELSE "claim",
                                         campaign |-> code[1], ref |-> code]]
    /\ UNCHANGED <<links, amplifiers, shares, doubled, projectVars>>

\* The row is unique per campaign and champion, and so is its code: a second insert fails.
SaveAmplifier(r) ==
    /\ linking[r].op = "claim" /\ UNCHANGED <<links, shares, doubled, projectVars>>
    /\ IF linking[r].ref \in amplifiers
       THEN linking' = [linking EXCEPT ![r] = NoCall] /\ UNCHANGED amplifiers
       ELSE linking' = [linking EXCEPT ![r].op = "generate"] /\ amplifiers' = amplifiers \cup {linking[r].ref}

-----------------------------------------------------------------------------
(* The project of the links *)

ResourceVars == <<links, amplifiers, linking, shares, doubled>>

\* Mutant of SetActive: the cache is left alone.
SetActive_NoReload(r, on) ==
    /\ IdleCall(r) /\ switches < MaxSwitches /\ switches' = switches + 1
    /\ active' = on /\ UNCHANGED <<loaded, switching, crossedReload, reloadFailed, ResourceVars>>

\* activate, deactivate: the row is saved, then reloaded.
SetActive(r, on) ==
    /\ IdleCall(r) /\ switches < MaxSwitches /\ switches' = switches + 1
    /\ active' = on /\ switching' = [switching EXCEPT ![r] = "saved"]
    /\ crossedReload' = (crossedReload \/ \E q \in LinkCalls \ {r} : switching[q] # "none")
    /\ UNCHANGED <<loaded, reloadFailed, ResourceVars>>

\* reloadProject: the answer to the query, and its assignment; when the query fails so
\* does the request, the row being saved.
QueryProject(r) ==
    /\ switching[r] = "saved" /\ switching' = [switching EXCEPT ![r] = IF active THEN "on" ELSE "off"]
    /\ UNCHANGED <<active, loaded, crossedReload, reloadFailed, switches, ResourceVars>>
ReloadFails(r) ==
    /\ switching[r] = "saved" /\ switching' = [switching EXCEPT ![r] = "none"] /\ reloadFailed' = TRUE
    /\ UNCHANGED <<active, loaded, crossedReload, switches, ResourceVars>>
reloadProject(r) ==
    /\ switching[r] \in {"on", "off"} /\ loaded' = (switching[r] = "on")
    /\ switching' = [switching EXCEPT ![r] = "none"] /\ reloadFailed' = FALSE
    /\ UNCHANGED <<active, crossedReload, switches, ResourceVars>>

LinkNext ==
    \E r \in LinkCalls :
        \/ generate(r) \/ InsertLink(r) \/ SaveAmplifier(r) \/ QueryProject(r) \/ ReloadFails(r) \/ reloadProject(r)
        \/ \E c \in Shared : forCampaign(r, c)
        \/ \E code \in Codes : claim(r, code)
        \/ \E on \in BOOLEAN : SetActive(r, on)

-----------------------------------------------------------------------------

\* The code a donor arrives with from what a champion shared: the one in the link's
\* row, or the champion's own in a bare address.
RefOf(share) == IF share.link = NoLink THEN share.code ELSE links[share.link].ref

\* What a champion shares leads to the campaign they champion, and no donation through
\* it is attributed to a champion of another one (dynamic-link.service generate).
LinkLeadsHome ==
    \A s \in shares : s.link # NoLink =>
        /\ links[s.link].campaign = s.code[1]
        /\ links[s.link].ref # NoCode => links[s.link].ref[1] = s.code[1]

\* A campaign has a second link only when two requests had looked for the first one
\* at the same time: everybody shares the one that is there (DL:159).
OneLinkUnlessRaced == \A c \in Shared : Cardinality(LinksOf(c)) <= 1 + doubled[c]

\* When no reload is under way the cached project is the active one, unless the
\* answers to two reloads crossed (DL:96-149) or the last reload failed after the save.
CacheFollowsTable ==
    (~crossedReload /\ ~reloadFailed /\ \A r \in LinkCalls : switching[r] = "none") => loaded = active

\* A comment of forCampaign says that "multiple amplifiers reuse one link per campaign
\* but each gets their own ref": what a champion shares carries the champion's code.
\* It does not hold: the link that is there carries the code it was inserted with.
EachSharesOwnRef == \A s \in shares : RefOf(s) = s.code
=============================================================================
