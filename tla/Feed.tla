-------------------------------- MODULE Feed --------------------------------
(***************************************************************************)
(* The For You feed of one user (campaign-feed.service): each request      *)
(* first rebuilds the interest profile when it is old                      *)
(* (user-interest-profile.service), then ranks the campaigns by it and     *)
(* returns those below the score the last page ended with.                 *)
(***************************************************************************)
EXTENDS Integers, FiniteSets

CONSTANTS
    Campaigns,      \* the ACTIVE and PENDING_APPROVAL campaigns, one tag each
    Age,            \* how old each was at the start
    FeedCalls,      \* feed requests handled at the same time
    StaleAfter,     \* age at which a profile is rebuilt (15 minutes)
    TakeLimit,      \* rows of a table a rebuild reads (200)
    PoolLimit,      \* campaigns a request ranks (200)
    PageLimit,      \* campaigns of a page
    MaxRows,        \* bound: donations and other rows of the user
    MaxFeedTime     \* bound of the clock

ASSUME CampaignsAssumption == IsFiniteSet(Campaigns) /\ Age \in [Campaigns -> Nat]
ASSUME FeedAssumption == {StaleAfter, TakeLimit, PoolLimit, PageLimit} \subseteq Nat \ {0} /\ {MaxRows, MaxFeedTime} \subseteq Nat

VARIABLES
    time,
    donatedAt, markedAt,    \* when the user donated to, liked, saved or viewed a campaign
    profile,        \* the row of user_interest_profiles: campaigns it knows of, updated_at
    asking,         \* each request: its step, what its rebuild has read
    client          \* the client that scrolls: cursor, what it was shown, whether ranks moved

feedVars == <<time, donatedAt, markedAt, profile, asking, client>>

NoProfile == [of |-> {}, at |-> 0, exists |-> FALSE]
NotAsking == [at |-> "idle", of |-> {}]
Top == 10 * (MaxFeedTime + 8)     \* above every rank
Unread == [cursor |-> Top, shown |-> {}, ends |-> {}, moved |-> FALSE, twice |-> FALSE, done |-> FALSE]

\* ORDER BY value DESC LIMIT n: n of S, all of it when it has no more, equals in any order.
Highest(S, n, value) ==
    {top \in SUBSET S :
        /\ Cardinality(top) = IF Cardinality(S) < n THEN Cardinality(S) ELSE n
        /\ \A c \in top, x \in S \ top : value[x] <= value[c]}

FeedInit ==
    /\ time = 0 /\ donatedAt = << >> /\ markedAt = << >>
    /\ profile = NoProfile /\ asking = [r \in FeedCalls |-> NotAsking]
    /\ client = Unread

\* What it knows of matches, what is young ranks higher, what others react to as well;
\* what the user has donated to sinks.
Rank(c) ==
    LET content == IF c \in profile.of THEN 4 ELSE 0
        freshness == MaxFeedTime + 3 - Age[c] - time
        penalty == IF c \in DOMAIN donatedAt THEN 7 ELSE 10 IN
    penalty * (content + freshness)

Ranks == [c \in Campaigns |-> Rank(c)]

\* What a client is shown after the ranks have moved under it is not looked at.
Lost == [Unread EXCEPT !.moved = TRUE]
RanksMove == client' = IF client.cursor # Top /\ Ranks' # Ranks THEN Lost ELSE client

\* Donating, liking, saving, commenting, viewing (recordView) insert rows the profile is
\* built from: a donation and one other row for a campaign.
Engage(c) ==
    /\ Cardinality(DOMAIN donatedAt) + Cardinality(DOMAIN markedAt) < MaxRows
    /\ \/ /\ c \notin DOMAIN donatedAt /\ UNCHANGED markedAt
          /\ donatedAt' = [x \in DOMAIN donatedAt \cup {c} |-> IF x = c THEN time ELSE donatedAt[x]]
       \/ /\ c \notin DOMAIN markedAt /\ UNCHANGED donatedAt
          /\ markedAt' = [x \in DOMAIN markedAt \cup {c} |-> IF x = c THEN time ELSE markedAt[x]]
    /\ UNCHANGED <<time, profile, asking>> /\ RanksMove

-----------------------------------------------------------------------------
(* The profile *)

Rebuilding == {r \in FeedCalls : asking[r].at \in {"donations", "others", "save"}}

\* A tick is longer than a request takes.
Later ==
    /\ time < MaxFeedTime /\ (\A r \in FeedCalls : asking[r].at = "idle") /\ time' = time + 1
    /\ UNCHANGED <<donatedAt, markedAt, profile, asking>> /\ RanksMove

\* A missing profile is built, one that is old rebuilt.
refreshIfStale(r) ==
    /\ asking[r].at = "idle" /\ UNCHANGED <<time, donatedAt, markedAt, profile, client>>
    /\ asking' = [asking EXCEPT ![r] =
            [NotAsking EXCEPT !.at = IF profile.exists /\ time - profile.at < StaleAfter THEN "rank" ELSE "donations"]]

\* The donations are read first, then the other tables, at once, the newest rows of each.
ReadDonations(r) ==
    /\ asking[r].at = "donations" /\ UNCHANGED <<time, donatedAt, markedAt, profile, client>>
    /\ \E rows \in Highest(DOMAIN donatedAt, TakeLimit, donatedAt) :
         asking' = [asking EXCEPT ![r].at = "others", ![r].of = rows]

ReadOthers(r) ==
    /\ asking[r].at = "others" /\ UNCHANGED <<time, donatedAt, markedAt, profile, client>>
    /\ \E rows \in Highest(DOMAIN markedAt, TakeLimit, markedAt) :
         asking' = [asking EXCEPT ![r].at = "save", ![r].of = @ \cup rows]

\* The row is written: updated_at only moves when something in it changed, and the
\* weights may round to what they were.  A first rebuild that meets the row another has
\* inserted fails, and the request with it.
SaveProfile(r) ==
    /\ asking[r].at = "save" /\ UNCHANGED <<time, donatedAt, markedAt>>
    /\ \/ /\ profile' = [of |-> asking[r].of, at |-> time, exists |-> TRUE]
          /\ asking' = [asking EXCEPT ![r] = [NotAsking EXCEPT !.at = "rank"]]
       \/ /\ profile.exists /\ profile.of = asking[r].of /\ UNCHANGED profile
          /\ asking' = [asking EXCEPT ![r] = [NotAsking EXCEPT !.at = "rank"]]
       \/ profile.exists /\ Rebuilding # {r} /\ asking' = [asking EXCEPT ![r] = NotAsking] /\ UNCHANGED profile
    /\ RanksMove

-----------------------------------------------------------------------------
(* The page *)

\* The youngest campaigns are ranked, the others never shown.
Candidates == Highest(Campaigns, PoolLimit, [c \in Campaigns |-> 0 - Age[c]])

\* The candidates below the cursor, in order of rank.
PageOf(pool, cursor) == Highest({c \in pool : Rank(c) < cursor}, PageLimit, Ranks)

LastOn(chunk) == CHOOSE c \in chunk : \A x \in chunk : Rank(c) <= Rank(x)

\* Mutant of getForYouFeed: from the cursor on.
getForYouFeed_Repeats(r) ==
    \E chunk \in UNION {{p \in SUBSET {c \in pool : Rank(c) <= client.cursor} : Cardinality(p) = PageLimit} : pool \in Candidates} :
        /\ asking[r].at = "rank" /\ ~client.done /\ chunk # {} /\ asking' = [asking EXCEPT ![r] = NotAsking]
        /\ client' = [client EXCEPT !.cursor = Rank(LastOn(chunk)), !.shown = @ \cup chunk, !.ends = @ \cup {Rank(LastOn(chunk))},
                !.twice = @ \/ client.shown \cap chunk # {}]
        /\ UNCHANGED <<time, donatedAt, markedAt, profile>>

\* The client (another device, now and then) is given the next page; one that is not full
\* is the last.
getForYouFeed(r) ==
    /\ asking[r].at = "rank" /\ asking' = [asking EXCEPT ![r] = NotAsking]
    /\ UNCHANGED <<time, donatedAt, markedAt, profile>>
    /\ \/ UNCHANGED client
       \/ /\ ~client.moved /\ ~client.done
          /\ \E pool \in Candidates : \E chunk \in PageOf(pool, client.cursor) :
               LET full == Cardinality(chunk) = PageLimit IN
               client' = [client EXCEPT
                    !.cursor = IF full THEN Rank(LastOn(chunk)) ELSE @,
                    !.ends = IF full THEN @ \cup {Rank(LastOn(chunk))} ELSE @,
                    !.shown = @ \cup chunk, !.twice = @ \/ client.shown \cap chunk # {}, !.done = ~full]

\* The client starts again from the top.
PullToRefresh == client # Unread /\ client' = Unread /\ UNCHANGED <<time, donatedAt, markedAt, profile, asking>>

FeedNext ==
    \/ \E c \in Campaigns : Engage(c)
    \/ \E r \in FeedCalls : refreshIfStale(r) \/ ReadDonations(r) \/ ReadOthers(r) \/ SaveProfile(r) \/ getForYouFeed(r)
    \/ Later \/ PullToRefresh

-----------------------------------------------------------------------------

FeedTypeOK ==
    /\ time \in 0..MaxFeedTime
    /\ DOMAIN donatedAt \cup DOMAIN markedAt \subseteq Campaigns
    /\ profile.of \subseteq DOMAIN donatedAt \cup DOMAIN markedAt /\ profile.at <= time
    /\ \A r \in FeedCalls : asking[r].of \subseteq DOMAIN donatedAt \cup DOMAIN markedAt
    /\ client.shown \subseteq Campaigns /\ client.cursor \in Int /\ client.cursor <= Top

\* The rows so new that every rebuild reads them: with those as new, they fit.
Newest(at) == {c \in DOMAIN at : Cardinality({x \in DOMAIN at : at[x] >= at[c]}) <= TakeLimit}

\* A page is ranked by a profile that knows everything the user did longer ago than the
\* profile may be old, of what is among the newest TakeLimit rows of its table, also where
\* rebuilds overlap and the older reading is written last.
KnowsWhatIsOld ==
    \A r \in FeedCalls : asking[r].at = "rank" =>
        /\ \A c \in Newest(donatedAt) : donatedAt[c] + StaleAfter <= time => c \in profile.of
        /\ \A c \in Newest(markedAt) : markedAt[c] + StaleAfter <= time => c \in profile.of

\* The campaigns so young that they are in the pool whichever way equals fall.
InEveryPool == {c \in Campaigns : \A pool \in Candidates : c \in pool}

\* As long as no rank moves, a client that scrolls is shown no campaign twice, and to the
\* end every campaign of the pool but those that tie with the last of a page.
ScrolledToTheEnd ==
    ~client.moved =>
        /\ ~client.twice
        /\ client.done => \A c \in InEveryPool \ client.shown : Rank(c) \in client.ends
=============================================================================
