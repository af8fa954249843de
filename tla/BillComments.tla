---------------------------- MODULE BillComments ----------------------------
(***************************************************************************)
(* Comments on a split bill (split-bill.service: addComment, editComment,  *)
(* deleteComment, toggleCommentLike, getBillComments): public ones, and    *)
(* private ones to some of the participants, with replies and likes.  A    *)
(* request checks everything first and writes afterwards, while people     *)
(* come and go, follow one another and delete comments.                    *)
(***************************************************************************)
EXTENDS Naturals, FiniteSets, Sequences, SequencesExt

CONSTANTS
    Talkers,        \* participants with an account
    Moderator,      \* the creator of the bill, a participant
    Guests,         \* participants without an account
    Posts,          \* requests served at the same time
    MaxComments,    \* bound: comments
    MaxTalk         \* bound: follows, declines, removals, likes and deletions

ASSUME ModeratorAssumption == Moderator \in Talkers
ASSUME GuestsAssumption == Guests \cap Talkers = {}
ASSUME PostsAssumption == IsFiniteSet(Posts) /\ {MaxComments, MaxTalk} \subseteq Nat

VARIABLES
    comments,       \* the comments, oldest first
    present,        \* the participants whose row is live
    declined,       \* the participants who have declined
    follows,        \* pairs <<follower, followed>>
    posting,        \* the comment each request has checked and will insert
    likes,          \* the comment likes: <<comment, user>>
    liking,         \* the likes that are checked and not yet written
    cancelled,      \* the bill is cancelled
    mutuals,        \* history: pairs that have once followed each other
    talk            \* counter of the bound

talkVars == <<comments, present, declined, follows, posting, likes, liking, cancelled, mutuals, talk>>

Parties == Talkers \cup Guests
NoParent == 0
NoComment == [by |-> Moderator, private |-> FALSE, to |-> {}, parent |-> NoParent,
              told |-> {}, deleted |-> TRUE]
CommentRow == [by : Parties, private : BOOLEAN, to : SUBSET Parties, parent : 0..MaxComments,
               told : SUBSET Talkers, deleted : BOOLEAN]

TalkTypeOK ==
    /\ comments \in Seq(CommentRow) /\ Len(comments) <= MaxComments
    /\ \A i \in DOMAIN comments : /\ comments[i].parent < i
                                  /\ comments[i].private <=> comments[i].to # {}
    /\ present \subseteq Parties /\ declined \subseteq Parties /\ follows \subseteq Talkers \X Talkers
    /\ posting \in [Posts -> CommentRow] /\ cancelled \in BOOLEAN
    /\ {likes, liking} \subseteq SUBSET ((DOMAIN comments) \X Talkers)
    /\ mutuals \subseteq SUBSET Talkers /\ talk \in 0..MaxTalk

Mutual(p, q) == <<p, q>> \in follows /\ <<q, p>> \in follows
NowMutual == {{e[1], e[2]} : e \in {f \in follows : Mutual(f[1], f[2])}}

TalkInit ==
    /\ comments = << >> /\ present = Parties /\ declined = {}
    /\ follows = {e \in Talkers \X Talkers : e[1] # e[2] /\ Moderator \in {e[1], e[2]}}
    /\ posting = [r \in Posts |-> NoComment]
    /\ likes = {} /\ liking = {} /\ cancelled = FALSE /\ mutuals = NowMutual /\ talk = 0

Busy(r) == ~posting[r].deleted
Audience(c) == IF c.private THEN {c.by} \cup c.to ELSE Parties

-----------------------------------------------------------------------------
(* addComment *)

MaySpeak(p) == p \in present /\ p \notin declined /\ ~cancelled

\* Who is asked for as a recipient of a private message.
RecipientsAllowed(p, to) ==
    /\ p \in Talkers /\ to # {} /\ p \notin to /\ to \subseteq present
    /\ \A q \in to : q \in Talkers /\ Mutual(p, q)

\* Mutant of Thread: a reply to a private message goes to its author alone.
Thread_AuthorOnly(p, asked, parent) ==
    LET c == comments[parent]
        to == IF parent = NoParent \/ ~c.private THEN asked ELSE {c.by} \ {p}
    IN [to |-> to, told |-> to \cap present]

\* A reply to a private comment goes to the rest of the parent's audience,
\* whatever recipients it asks for; those who are still on the bill are told.
Thread(p, asked, parent) ==
    LET c == comments[parent]
        to == IF parent = NoParent \/ ~c.private THEN asked ELSE Audience(c) \ {p}
    IN [to |-> to, told |-> to \cap present]

MayReply(p, parent) ==
    parent # NoParent => /\ ~comments[parent].deleted
                         /\ comments[parent].private => p \in Audience(comments[parent])

FinalVisibility(asked, to) == to # {}

\* A comment that is public is told to the creator, who is not its author.
checkComment(r) ==
    /\ ~Busy(r) /\ Len(comments) + Cardinality({q \in Posts : Busy(q)}) < MaxComments
    /\ \E p \in Parties, asked \in SUBSET Parties, parent \in {NoParent} \cup DOMAIN comments :
         /\ MaySpeak(p) /\ MayReply(p, parent)
         /\ asked # {} => RecipientsAllowed(p, asked)
         /\ LET thread == Thread(p, asked, parent)
                private == FinalVisibility(asked, thread.to)
            IN posting' = [posting EXCEPT ![r] =
                 [by |-> p, private |-> private, to |-> IF private THEN thread.to ELSE {},
                  parent |-> parent, deleted |-> FALSE,
                  told |-> IF private THEN thread.told \ {p} ELSE {Moderator} \ {p}]]
    /\ UNCHANGED <<comments, present, declined, follows, likes, liking, cancelled, mutuals, talk>>

saveComment(r) ==
    /\ Busy(r)
    /\ comments' = Append(comments, posting[r])
    /\ posting' = [posting EXCEPT ![r] = NoComment]
    /\ UNCHANGED <<present, declined, follows, likes, liking, cancelled, mutuals, talk>>

-----------------------------------------------------------------------------
(* Likes, deletions, and what people do meanwhile *)

Talk == talk < MaxTalk /\ talk' = talk + 1

\* A private comment is liked by its audience; who was removed is none of it.
MayLike(u, i) ==
    ~comments[i].deleted /\ (comments[i].private => u \in Audience(comments[i]) \cap present)

\* The like of this user is taken back, or will be inserted.
toggleCommentLike ==
    \E u \in Talkers, i \in DOMAIN comments :
       /\ Talk /\ MayLike(u, i)
       /\ IF <<i, u>> \in likes THEN likes' = likes \ {<<i, u>>} /\ UNCHANGED liking
                                ELSE liking' = liking \cup {<<i, u>>} /\ UNCHANGED likes
       /\ UNCHANGED <<comments, present, declined, follows, posting, cancelled, mutuals>>

saveCommentLike ==
    \E l \in liking :
       /\ likes' = likes \cup {l} /\ liking' = liking \ {l}
       /\ UNCHANGED <<comments, present, declined, follows, posting, cancelled, mutuals, talk>>

\* By its author or by the creator, while they have a row on the bill.
deleteComment ==
    \E i \in DOMAIN comments, p \in Parties :
       /\ Talk /\ ~comments[i].deleted /\ p \in {comments[i].by, Moderator}
       /\ comments' = [comments EXCEPT ![i].deleted = TRUE]
       /\ UNCHANGED <<present, declined, follows, posting, likes, liking, cancelled, mutuals>>

\* An invitation is declined, a participant removed, the bill cancelled.
LeaveBill ==
    /\ Talk
    /\ \/ \E p \in Parties \ declined : declined' = declined \cup {p} /\ UNCHANGED <<present, cancelled>>
       \/ \E p \in present \ {Moderator} : present' = present \ {p} /\ UNCHANGED <<declined, cancelled>>
       \/ ~cancelled /\ cancelled' = TRUE /\ UNCHANGED <<present, declined>>
    /\ UNCHANGED <<comments, follows, posting, likes, liking, mutuals>>

\* FollowService, between any two.
FollowOrUnfollow ==
    \E e \in Talkers \X Talkers :
       /\ Talk /\ e[1] # e[2]
       /\ follows' = IF e \in follows THEN follows \ {e} ELSE follows \cup {e}
       /\ mutuals' = mutuals \cup NowMutual'
       /\ UNCHANGED <<comments, present, declined, posting, likes, liking, cancelled>>

TalkNext ==
    \/ \E r \in Posts : checkComment(r) \/ saveComment(r)
    \/ toggleCommentLike \/ saveCommentLike \/ deleteComment \/ LeaveBill \/ FollowOrUnfollow

-----------------------------------------------------------------------------
(* Properties *)

\* The comments that the list shows a user.
getBillComments(u) ==
    {i \in DOMAIN comments :
        /\ ~comments[i].deleted
        /\ ~comments[i].private \/ (u \in present /\ (comments[i].by = u \/ u \in comments[i].to))}

\* A private thread keeps its audience: no reply, whatever it asks for and whoever
\* left meanwhile, is seen by more or fewer people than the message it answers.
ThreadKeepsAudience ==
    \A i \in DOMAIN comments :
       LET c == comments[i] IN
       c.parent # NoParent /\ comments[c.parent].private =>
          c.private /\ Audience(c) = Audience(comments[c.parent])

\* Whoever is told of a private message finds it in the list, as long as they are
\* on the bill and it is not deleted.
ToldCanRead ==
    \A i \in DOMAIN comments : \A u \in comments[i].told :
       u \in present /\ ~comments[i].deleted => i \in getBillComments(u)

\* A private message outside a private thread reaches only people who, at some
\* time, followed the author and were followed back.
PrivateAmongMutuals ==
    \A i \in DOMAIN comments :
       LET c == comments[i] IN
       c.private /\ (c.parent = NoParent \/ ~comments[c.parent].private) =>
          \A q \in c.to : {c.by, q} \in mutuals

\* toggleCommentLike and getBillComments agree on who sees what: a comment that
\* somebody likes is in the list they get while they are on the bill.
LikedIsListed ==
    \A l \in likes \cup liking : l[2] \in present /\ ~comments[l[1]].deleted => l[1] \in getBillComments(l[2])
=============================================================================
