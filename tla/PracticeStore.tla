--------------------------- MODULE PracticeStore ---------------------------
(***************************************************************************)
(* The server of the practice community: practice_app/repository.py over    *)
(* SQLite, practice_app/media.py, and the handlers of practice_app/main.py. *)
(*                                                                          *)
(* Handlers run in parallel threads.  A writing handler is one SQLite       *)
(* transaction (BEGIN IMMEDIATE, or one INSERT), so it is one step; the     *)
(* SELECTs of list_posts() run outside any transaction, each on its own     *)
(* snapshot, and the image files are not part of any transaction.           *)
(*                                                                          *)
(* A call is a request from a slot of a page until its reply is used.       *)
(***************************************************************************)
EXTENDS Integers, Sequences, SequencesExt, FiniteSets

CONSTANTS
    Pages,        \* browser pages, each with a session cookie of its own
    Slots,        \* the requests one page may have under way at a time
    None,
    MaxPosts,     \* bound on the posts ever published
    MaxImages,    \* bound on the images ever stored
    MaxComments,  \* bound on the comments ever accepted
    MaxFaults     \* bound on ended sessions and restarts

VARIABLES
    posts,      \* table posts: id -> [stamp, image, count]
    likes,      \* table likes: <<post, page>>, a page stands for its user
    comments,   \* table comments: set of [id, post, stamp]
    lastPost, lastComment,   \* AUTOINCREMENT sequences
    published,  \* number of posts ever inserted: the stamp of the last one
    files,      \* image names in the media directory
    issued,     \* image names handed out
    purge,      \* image names a reset has still to remove, None without one
    spoiled,    \* a restart or a failed write may have left an image behind
    sessions,   \* pages whose session is valid
    faults,     \* ended sessions and restarts so far
    calls       \* the request in each slot of each page

store  == <<posts, likes, comments, lastPost, lastComment, published>>
media  == <<files, issued, purge, spoiled>>
access == <<sessions, faults>>
server == <<store, media, access, calls>>

Queries == {"all", "none"}

(* The stamp says which post a card was rendered for; no request carries it. *)
Call(kind, post, stamp, key, query) ==
    [kind |-> kind, stage |-> "sent", post |-> post, stamp |-> stamp, key |-> key,
     query |-> query, image |-> None, rows |-> <<>>, view |-> <<>>, status |-> 0,
     comment |-> 0, count |-> 0, liked |-> FALSE]

(* A call of create_post() once its image is written. *)
Stored(image) ==
    [Call("publish", 0, 0, 0, "all") EXCEPT !.stage = "stored", !.image = image]

(* None is no image, no set of images and no call. *)
ASSUME StoreAssumption ==
    /\ MaxImages \in Nat
    /\ \A image \in 1 .. MaxImages : image # None /\ Stored(image) # None
    /\ \A images \in SUBSET (1 .. MaxImages) : images # None

ServerInit ==
    /\ posts = [id \in {} |-> None] /\ likes = {} /\ comments = {}
    /\ lastPost = 0 /\ lastComment = 0 /\ published = 0
    /\ files = {} /\ issued = 0 /\ purge = None /\ spoiled = FALSE
    /\ sessions = {} /\ faults = 0
    /\ calls = [p \in Pages |-> [s \in Slots |-> None]]

Pending(p, s, kind, stage) ==
    /\ calls[p][s] # None
    /\ calls[p][s].kind = kind /\ calls[p][s].stage = stage

Reply(p, s, call, status) ==
    calls' = [calls EXCEPT ![p][s] = [call EXCEPT !.stage = "replied", !.status = status]]

(* current_user() comes first in every handler of the community. *)
Unauthorised(p, s) ==
    /\ calls[p][s] # None /\ calls[p][s].stage = "sent" /\ p \notin sessions
    /\ Reply(p, s, calls[p][s], 401)
    /\ UNCHANGED <<store, media, access>>

----------------------------------------------------------------------------
(* list_posts() *)

Row(id) == [post |-> id, stamp |-> posts[id].stamp, count |-> posts[id].count]

(* ORDER BY id; in reverse for the posts. *)
Ascending(ids) ==
    CHOOSE s \in [1 .. Cardinality(ids) -> ids] : \A i, j \in DOMAIN s : i < j => s[i] < s[j]

NewestFirst == Reverse(Ascending(DOMAIN posts))

ReadRows(p, s) ==
    /\ Pending(p, s, "load", "sent") /\ p \in sessions
    /\ LET rows == [i \in 1 .. Len(NewestFirst) |-> Row(NewestFirst[i])] IN
       calls' = [calls EXCEPT ![p][s] =
                   [@ EXCEPT !.stage = "reading", !.rows = rows]]
    /\ UNCHANGED <<store, media, access>>

CommentsOf(id) == Ascending({c.id : c \in {x \in comments : x.post = id}})

LikesOf(id) == {like \in likes : like[1] = id}

(* _view(): the counter comes with the row, the list is read now.  Likes    *)
(* and comments are read together: no rule relates the two.                 *)
View(p, row) ==
    [post |-> row.post, stamp |-> row.stamp, count |-> row.count,
     list |-> CommentsOf(row.post), likes |-> Cardinality(LikesOf(row.post)),
     liked |-> <<row.post, p>> \in likes]

ReadPost(p, s) ==
    LET call == calls[p][s] IN
    /\ Pending(p, s, "load", "reading") /\ Len(call.view) < Len(call.rows)
    /\ calls' = [calls EXCEPT ![p][s].view = Append(@, View(p, call.rows[Len(@) + 1]))]
    /\ UNCHANGED <<store, media, access>>

(* The query filters what was read. *)
ListPosts(p, s) ==
    LET call == calls[p][s] IN
    /\ Pending(p, s, "load", "reading") /\ Len(call.view) = Len(call.rows)
    /\ Reply(p, s, [call EXCEPT !.rows = <<>>,
                                !.view = IF call.query = "all" THEN @ ELSE <<>>], 200)
    /\ UNCHANGED <<store, media, access>>

----------------------------------------------------------------------------
(* toggle_like() and comment() *)

(* Mutant: the like is stored under the number of the load. *)
LikeOfKey(p, call) == <<call.key, p>>

LikeOf(p, call) == <<call.post, p>>

ToggleLike(p, s) ==
    LET call == calls[p][s]
        like == LikeOf(p, call)
        new == IF like \in likes THEN likes \ {like} ELSE likes \cup {like} IN
    /\ Pending(p, s, "like", "sent") /\ p \in sessions
    /\ IF call.post \in DOMAIN posts
       THEN /\ likes' = new
            /\ Reply(p, s, [call EXCEPT !.liked = like \notin likes,
                       !.count = Cardinality({l \in new : l[1] = call.post})], 200)
       ELSE Reply(p, s, call, 404) /\ UNCHANGED likes
    /\ UNCHANGED <<posts, comments, lastPost, lastComment, published, media, access>>

(* Mutant: the injected defect, the counter is not incremented. *)
IncrementNever(id) == posts

Increment(id) == [posts EXCEPT ![id].count = @ + 1]

CreateComment(p, s) ==
    LET call == calls[p][s] IN
    /\ Pending(p, s, "comment", "sent") /\ p \in sessions
    /\ IF call.post \in DOMAIN posts
       THEN /\ lastComment < MaxComments
            /\ lastComment' = lastComment + 1
            /\ comments' = comments \cup {[id |-> lastComment + 1, post |-> call.post,
                                           stamp |-> call.stamp]}
            /\ posts' = Increment(call.post)
            /\ Reply(p, s, [call EXCEPT !.comment = lastComment + 1,
                                        !.count = posts'[call.post].count], 201)
       ELSE Reply(p, s, call, 404) /\ UNCHANGED <<posts, comments, lastComment>>
    /\ UNCHANGED <<likes, lastPost, published, media, access>>

----------------------------------------------------------------------------
(* create_post(): the image is written before the row, and removed again if *)
(* the row cannot be inserted.                                              *)

(* Mutant: row identifiers are reused, as without AUTOINCREMENT. *)
NextPostReused == IF posts = <<>> THEN 1 ELSE Cardinality(DOMAIN posts) + 1

NextPost == lastPost + 1

Insert(image) ==
    /\ published < MaxPosts
    /\ published' = published + 1
    /\ lastPost' = NextPost
    /\ posts' = [id \in DOMAIN posts \cup {NextPost} |->
                   IF id = NextPost THEN [stamp |-> published + 1, image |-> image, count |-> 0]
                   ELSE posts[id]]
    /\ UNCHANGED <<likes, comments, lastComment>>

StoreImage(p, s) ==
    /\ Pending(p, s, "publish", "sent") /\ p \in sessions
    /\ issued < MaxImages
    /\ issued' = issued + 1 /\ files' = files \cup {issued + 1}
    /\ \/ calls' = [calls EXCEPT ![p][s] = Stored(issued + 1)] /\ UNCHANGED spoiled
       \/ \* the write fails half way: MediaStore.store() leaves the file
          Reply(p, s, calls[p][s], 500) /\ spoiled' = TRUE
    /\ UNCHANGED <<store, purge, access>>

CreatePost(p, s) ==
    /\ \/ Pending(p, s, "publish", "stored")
       \/ Pending(p, s, "publish", "sent") /\ p \in sessions
    /\ Insert(calls[p][s].image)
    /\ Reply(p, s, calls[p][s], 201)
    /\ UNCHANGED <<media, access>>

(* Mutant: the image of a failed publish is kept. *)
KeepImage(image) == files

RemoveImage(image) == files \ {image}

FailPublish(p, s) ==
    /\ Pending(p, s, "publish", "stored")
    /\ files' = RemoveImage(calls[p][s].image)
    /\ Reply(p, s, calls[p][s], 500)
    /\ UNCHANGED <<store, issued, purge, spoiled, access>>

----------------------------------------------------------------------------
(* reset(), sessions, restart *)

ImagesOf(table) == {table[id].image : id \in DOMAIN table} \ {None}

(* Mutant: the files go before the rows. *)
ResetFilesFirst ==
    /\ purge = None /\ DOMAIN posts # {}
    /\ files' = files \ ImagesOf(posts)
    /\ UNCHANGED <<store, issued, purge, spoiled, access, calls>>

(* The rows go in one transaction, likes and comments with them (ON DELETE  *)
(* CASCADE); their images one by one afterwards.                            *)
Reset ==
    /\ purge = None /\ DOMAIN posts # {}
    /\ posts' = [id \in {} |-> None] /\ likes' = {} /\ comments' = {}
    /\ purge' = ImagesOf(posts)
    /\ UNCHANGED <<lastPost, lastComment, published, files, issued, spoiled, access, calls>>

RemoveMedia ==
    /\ purge # None
    /\ IF purge = {} THEN purge' = None /\ UNCHANGED files
       ELSE \E name \in purge : purge' = purge \ {name} /\ files' = files \ {name}
    /\ UNCHANGED <<store, issued, spoiled, access, calls>>

(* logout, expiry *)
EndSession(p) ==
    /\ p \in sessions /\ faults < MaxFaults
    /\ sessions' = sessions \ {p} /\ faults' = faults + 1
    /\ UNCHANGED <<store, media, calls>>

(* The process restarts on the same data directory: sessions and handlers   *)
(* are gone, and with them what create_post() and reset() had left to do.   *)
Restart ==
    /\ sessions # {} /\ faults < MaxFaults
    /\ sessions' = {} /\ faults' = faults + 1
    /\ calls' = [p \in Pages |-> [s \in Slots |->
                   IF calls[p][s] = None \/ calls[p][s].stage = "replied" THEN calls[p][s]
                   ELSE [calls[p][s] EXCEPT !.stage = "replied", !.status = 0]]]
    /\ spoiled' = (spoiled \/ purge # None
                     \/ \E p \in Pages, s \in Slots : Pending(p, s, "publish", "stored"))
    /\ purge' = None
    /\ UNCHANGED <<store, files, issued>>

Serve ==
    \/ \E p \in Pages, s \in Slots :
         \/ Unauthorised(p, s) \/ ReadRows(p, s) \/ ReadPost(p, s) \/ ListPosts(p, s)
         \/ ToggleLike(p, s) \/ CreateComment(p, s)
         \/ StoreImage(p, s) \/ CreatePost(p, s) \/ FailPublish(p, s)
    \/ Reset \/ RemoveMedia \/ Restart
    \/ \E p \in Pages : EndSession(p)

----------------------------------------------------------------------------
(* Properties of the store *)

StoreTypeOK ==
    /\ DOMAIN posts \subseteq 1 .. lastPost
    /\ likes \subseteq (1 .. lastPost) \X Pages
    /\ files \subseteq 1 .. issued
    /\ sessions \subseteq Pages
    /\ \A p \in Pages, s \in Slots : calls[p][s] # None =>
         calls[p][s].stage \in {"sent", "reading", "stored", "replied"}

(* The counter of a post is the number of its comments, and no like or      *)
(* comment outlives its post (repository.py comment(), reset()).            *)
StoreIsConsistent ==
    /\ \A id \in DOMAIN posts :
         posts[id].count = Cardinality({c \in comments : c.post = id})
    /\ \A c \in comments : c.post \in DOMAIN posts
    /\ \A like \in likes : like[1] \in DOMAIN posts

(* A post the feed lists never points to an image that is not there,        *)
(* whatever publishing, failing, resetting and restarting overlap.          *)
ImagesAreStored == ImagesOf(posts) \subseteq files

(* MEDIA-01: while nothing is being published or reset, the media directory *)
(* holds the images of the posts and nothing else, unless a restart or a    *)
(* failed write interrupted one of them.                                    *)
NoOrphanImages ==
    (/\ ~ spoiled /\ purge = None
     /\ \A p \in Pages, s \in Slots : ~ Pending(p, s, "publish", "stored")) =>
        files = ImagesOf(posts)

(* A comment lands on the very post its card was rendered for: a page that  *)
(* is still open after a reset cannot reach a later post by an old number.  *)
CommentsReachTheirPost ==
    \A c \in comments : c.post \in DOMAIN posts => posts[c.post].stamp = c.stamp
=============================================================================
