------------------------ MODULE CommunityFeedProofs ------------------------
(***************************************************************************)
(* The tables and the media directory of the practice application stay      *)
(* consistent under every interleaving of the handlers, resets and restarts *)
(* of PracticeStore, whatever the pages of CommunityFeed send.              *)
(*                                                                          *)
(* TableInv is inductive by itself.  MediaInv follows each image from the   *)
(* moment it is written: it belongs to one publishing handler, then to one  *)
(* post, then to the reset that removes it, and never to two of them;       *)
(* Accounted adds that it always belongs to one of them.  FeedInv relates   *)
(* what the pages show and have under way to the tables: the number of a    *)
(* post means one post for ever, the key of a load marks the cards of that  *)
(* load only, and an accepted comment is not on its card before its reply.  *)
(***************************************************************************)
EXTENDS CommunityFeed, FiniteSetTheorems, SequenceTheorems, WellFoundedInduction, TLAPS

CommentsAt(id) == {c \in comments : c.post = id}

TableInv ==
    /\ lastPost \in Nat /\ lastComment \in Nat
    /\ DOMAIN posts \subseteq 1 .. lastPost
    /\ \A id \in DOMAIN posts :
         /\ DOMAIN posts[id] = {"stamp", "image", "count"}
         /\ posts[id].count = Cardinality(CommentsAt(id))
    /\ IsFiniteSet(comments)
    /\ \A c \in comments : c.id \in 1 .. lastComment /\ c.post \in DOMAIN posts
    /\ \A like \in likes : like[1] \in DOMAIN posts

LEMMA TableInit == Init => TableInv
<1> SUFFICES ASSUME Init PROVE TableInv
  OBVIOUS
<1>1. posts = [id \in {} |-> None] /\ comments = {} /\ likes = {} /\ lastPost = 0 /\ lastComment = 0
  BY DEF Init, ServerInit
<1>2. IsFiniteSet({})
  BY FS_EmptySet
<1> QED
  BY <1>1, <1>2 DEF TableInv

LEMMA TableToggle ==
    ASSUME TableInv, NEW p \in Pages, NEW s \in Slots, ToggleLike(p, s)
    PROVE  TableInv'
<1>1. posts' = posts /\ comments' = comments /\ lastPost' = lastPost /\ lastComment' = lastComment
  BY DEF ToggleLike
<1>2. \A like \in likes' : like \in likes \/ (like = <<calls[p][s].post, p>> /\ calls[p][s].post \in DOMAIN posts)
  BY DEF ToggleLike, LikeOf
<1>3. \A like \in likes' : like[1] \in DOMAIN posts
  BY <1>2 DEF TableInv
<1>4. \A id : CommentsAt(id)' = CommentsAt(id)
  BY <1>1 DEF CommentsAt
<1> QED
  BY <1>1, <1>3, <1>4 DEF TableInv

CountsOneMore(S, new) ==
    \A id : Cardinality({c \in S \cup {new} : c.post = id}) =
              IF id = new.post THEN Cardinality({c \in S : c.post = id}) + 1
              ELSE Cardinality({c \in S : c.post = id})

(* One more comment counts for its own post and for no other. *)
LEMMA OneMoreComment ==
    ASSUME NEW S, IsFiniteSet(S), NEW new, new \notin S
    PROVE  IsFiniteSet(S \cup {new}) /\ CountsOneMore(S, new)
<1>1. IsFiniteSet(S \cup {new})
  BY FS_AddElement
<1>2. ASSUME NEW id
      PROVE  Cardinality({c \in S \cup {new} : c.post = id}) =
               IF id = new.post THEN Cardinality({c \in S : c.post = id}) + 1
               ELSE Cardinality({c \in S : c.post = id})
  <2> DEFINE T == {c \in S : c.post = id}
  <2>1. IsFiniteSet(T)
    <3>1. T \subseteq S
      OBVIOUS
    <3> QED
      BY <3>1, FS_Subset
  <2>2. CASE id = new.post
    <3>1. {c \in S \cup {new} : c.post = id} = T \cup {new} /\ new \notin T
      BY <2>2
    <3> HIDE DEF T
    <3>2. Cardinality(T \cup {new}) = Cardinality(T) + 1
      BY <2>1, <3>1, FS_AddElement
    <3> QED
      BY <2>2, <3>1, <3>2 DEF T
  <2>3. CASE id # new.post
    BY <2>3
  <2> QED
    BY <2>2, <2>3
<1> QED
  BY <1>1, <1>2 DEF CountsOneMore

(* The new comment has a fresh number, so its post counts exactly one more. *)
LEMMA TableComment ==
    ASSUME TableInv, NEW p \in Pages, NEW s \in Slots, CreateComment(p, s)
    PROVE  TableInv'
<1> DEFINE at == calls[p][s].post
           new == [id |-> lastComment + 1, post |-> at, stamp |-> calls[p][s].stamp]
<1>0. likes' = likes /\ lastPost' = lastPost
  BY DEF CreateComment
<1>1. CASE at \notin DOMAIN posts
  <2>1. posts' = posts /\ comments' = comments /\ lastComment' = lastComment
    BY <1>1 DEF CreateComment
  <2>2. \A id : CommentsAt(id)' = CommentsAt(id)
    BY <2>1 DEF CommentsAt
  <2> QED
    BY <1>0, <2>1, <2>2 DEF TableInv
<1>2. CASE at \in DOMAIN posts
  <2>1. /\ lastComment' = lastComment + 1
        /\ comments' = comments \cup {new}
        /\ posts' = [posts EXCEPT ![at].count = @ + 1]
    BY <1>2 DEF CreateComment, Increment
  <2>2. /\ DOMAIN posts' = DOMAIN posts
        /\ \A id \in DOMAIN posts : DOMAIN posts'[id] = DOMAIN posts[id]
        /\ \A id \in DOMAIN posts : id # at => posts'[id] = posts[id]
        /\ posts'[at].count = posts[at].count + 1
    BY <1>2, <2>1 DEF TableInv
  <2>3. lastComment \in Nat /\ new.post = at /\ new.id = lastComment + 1
    BY DEF TableInv
  <2>4. new \notin comments
    <3>1. \A c \in comments : c.id <= lastComment /\ c.id \in Nat
      BY <2>3 DEF TableInv
    <3> QED
      BY <2>3, <3>1
  <2> HIDE DEF at, new
  <2>5. /\ IsFiniteSet(comments')
        /\ \A id : Cardinality(CommentsAt(id)') =
                  IF id = at THEN Cardinality(CommentsAt(id)) + 1 ELSE Cardinality(CommentsAt(id))
    <3>1. IsFiniteSet(comments)
      BY DEF TableInv
    <3>2. IsFiniteSet(comments \cup {new}) /\ CountsOneMore(comments, new)
      BY <2>4, <3>1, OneMoreComment
    <3>3. \A id : /\ CommentsAt(id) = {c \in comments : c.post = id}
                  /\ CommentsAt(id)' = {c \in comments \cup {new} : c.post = id}
      BY <2>1 DEF CommentsAt
    <3> QED
      BY <2>1, <2>3, <3>2, <3>3 DEF CountsOneMore
  <2>6. \A id \in DOMAIN posts : DOMAIN posts'[id] = {"stamp", "image", "count"}
    BY <2>2 DEF TableInv
  <2>7. \A id \in DOMAIN posts : posts[id].count = Cardinality(CommentsAt(id))
    BY DEF TableInv
  <2>8. \A id \in DOMAIN posts : posts'[id].count = Cardinality(CommentsAt(id)')
    BY <1>2, <2>2, <2>5, <2>7
  <2>9. \A c \in comments' : c.id \in 1 .. lastComment' /\ c.post \in DOMAIN posts
    BY <1>2, <2>1, <2>3 DEF TableInv
  <2>10. lastComment' \in Nat
    BY <2>1, <2>3
  <2> QED
    BY <1>0, <2>2, <2>5, <2>6, <2>8, <2>9, <2>10 DEF TableInv
<1> QED
  BY <1>1, <1>2

(* A new post has a number no comment names.                                *)
LEMMA TableInsert ==
    ASSUME TableInv, NEW image, Insert(image)
    PROVE  TableInv'
<1> DEFINE row == [stamp |-> published + 1, image |-> image, count |-> 0]
<1>0. PICK new : new = lastPost + 1
  OBVIOUS
<1>1. /\ likes' = likes /\ comments' = comments /\ lastComment' = lastComment
      /\ lastPost' = new
      /\ posts' = [id \in DOMAIN posts \cup {new} |-> IF id = new THEN row ELSE posts[id]]
  BY <1>0 DEF Insert, NextPost
<1>2. new \notin DOMAIN posts /\ lastPost' \in Nat /\ DOMAIN posts' \subseteq 1 .. lastPost'
  <2>1. lastPost \in Nat /\ DOMAIN posts \subseteq 1 .. lastPost
    BY DEF TableInv
  <2>2. DOMAIN posts' = DOMAIN posts \cup {new}
    BY <1>1
  <2> QED
    BY <1>0, <1>1, <2>1, <2>2
<1>3. \A id : CommentsAt(id)' = CommentsAt(id)
  BY <1>1 DEF CommentsAt
<1>4. CommentsAt(new) = {}
  BY <1>2 DEF TableInv, CommentsAt
<1>5. posts'[new].count = 0 /\ DOMAIN posts'[new] = {"stamp", "image", "count"}
  BY <1>1
<1>6. Cardinality(CommentsAt(new)') = 0
  <2>1. CommentsAt(new)' = {}
    BY <1>3, <1>4
  <2> QED
    BY <2>1, FS_EmptySet
<1>7. \A id \in DOMAIN posts : posts'[id] = posts[id]
  BY <1>1, <1>2
<1>8. \A id \in DOMAIN posts :
        /\ DOMAIN posts'[id] = {"stamp", "image", "count"}
        /\ posts'[id].count = Cardinality(CommentsAt(id)')
  BY <1>3, <1>7 DEF TableInv
<1>9. DOMAIN posts' = DOMAIN posts \cup {new}
  BY <1>1
<1>10. \A id \in DOMAIN posts' :
        /\ DOMAIN posts'[id] = {"stamp", "image", "count"}
        /\ posts'[id].count = Cardinality(CommentsAt(id)')
  BY <1>5, <1>6, <1>8, <1>9
<1> QED
  BY <1>1, <1>2, <1>9, <1>10 DEF TableInv

LEMMA TableReset ==
    ASSUME TableInv, Reset
    PROVE  TableInv'
<1>1. /\ posts' = [id \in {} |-> None] /\ likes' = {} /\ comments' = {}
      /\ lastPost' = lastPost /\ lastComment' = lastComment
  BY DEF Reset
<1>2. IsFiniteSet({})
  BY FS_EmptySet
<1> QED
  BY <1>1, <1>2 DEF TableInv

LEMMA TableSame ==
    ASSUME TableInv, UNCHANGED store
    PROVE  TableInv'
<1>1. \A id : CommentsAt(id)' = CommentsAt(id)
  BY DEF CommentsAt, store
<1> QED
  BY <1>1 DEF TableInv, store

LEMMA TableStep == TableInv /\ [Next]_vars => TableInv'
<1> SUFFICES ASSUME TableInv, [Next]_vars PROVE TableInv'
  OBVIOUS
<1>1. CASE UNCHANGED vars
  BY <1>1, TableSame DEF vars, server
<1>2. ASSUME NEW p \in Pages, Browse(p) PROVE TableInv'
  <2>1. UNCHANGED store
    BY <1>2 DEF Browse, Login, BeginLoad, EndLoad, BeginAction, BeginPublish, EndAction, Send, Receive
  <2> QED
    BY <2>1, TableSame
<1>3. ASSUME NEW p \in Pages, NEW s \in Slots,
             \/ Unauthorised(p, s) \/ ReadRows(p, s) \/ ReadPost(p, s) \/ ListPosts(p, s)
             \/ StoreImage(p, s) \/ FailPublish(p, s)
      PROVE  TableInv'
  <2>1. UNCHANGED store
    BY <1>3 DEF Unauthorised, ReadRows, ReadPost, ListPosts, StoreImage, FailPublish
  <2> QED
    BY <2>1, TableSame
<1>4. ASSUME NEW p \in Pages, NEW s \in Slots, CreatePost(p, s) PROVE TableInv'
  BY <1>4, TableInsert DEF CreatePost
<1>5. ASSUME RemoveMedia \/ Restart \/ \E p \in Pages : EndSession(p) PROVE TableInv'
  BY <1>5, TableSame DEF RemoveMedia, Restart, EndSession
<1> QED
  BY <1>1, <1>2, <1>3, <1>4, <1>5, TableToggle, TableComment, TableReset DEF Next, Serve

(* repository.py: under any interleaving of handlers, resets and restarts,  *)
(* the counter of a post is the number of its comments, and no comment or   *)
(* like outlives its post.                                                  *)
THEOREM TablesAgree == Spec => []StoreIsConsistent
<1>1. TableInv => StoreIsConsistent
  BY DEF TableInv, StoreIsConsistent, CommentsAt
<1> QED
  BY TableInit, TableStep, <1>1, PTL DEF Spec

-----------------------------------------------------------------------------
(* Where the images are *)

Fields == DOMAIN Call("load", 0, 0, 0, "all")

(* A publishing handler that has written its image, not yet its row. *)
Holds(p, s) == Pending(p, s, "publish", "stored")

FilesInv ==
    /\ issued \in 0 .. MaxImages /\ files \subseteq 1 .. issued
    /\ ImagesOf(posts) \subseteq files
    /\ purge # None => purge \subseteq files /\ purge \cap ImagesOf(posts) = {}

CallOK(call) ==
    call # None => /\ DOMAIN call = Fields
                   /\ call.stage = "sent" => call.image = None

CallsShape ==
    /\ DOMAIN calls = Pages /\ \A p \in Pages : DOMAIN calls[p] = Slots
    /\ \A p \in Pages, s \in Slots : CallOK(calls[p][s])

HeldInv ==
    /\ \A p \in Pages, s \in Slots : Holds(p, s) =>
         /\ calls[p][s].image \in files /\ calls[p][s].image \notin ImagesOf(posts)
         /\ purge # None => calls[p][s].image \notin purge
    /\ \A p, q \in Pages, s, t \in Slots :
         Holds(p, s) /\ Holds(q, t) /\ calls[p][s].image = calls[q][t].image => p = q /\ s = t

MediaInv == FilesInv /\ CallsShape /\ HeldInv

LEMMA MediaInit == Init => MediaInv
<1> SUFFICES ASSUME Init PROVE MediaInv
  OBVIOUS
<1>1. /\ posts = [id \in {} |-> None] /\ files = {} /\ issued = 0 /\ purge = None
      /\ calls = [p \in Pages |-> [s \in Slots |-> None]]
  BY DEF Init, ServerInit
<1>2. FilesInv
  BY <1>1, StoreAssumption DEF FilesInv, ImagesOf
<1>3. \A p \in Pages, s \in Slots : calls[p][s] = None
  BY <1>1
<1>4. CallsShape
  BY <1>1, <1>3 DEF CallsShape, CallOK
<1>5. HeldInv
  BY <1>3 DEF HeldInv, Holds, Pending
<1> QED
  BY <1>2, <1>4, <1>5 DEF MediaInv

(* One call changed, the others as they were. *)
OnlyCall(p, s, call) ==
    /\ CallsShape'
    /\ calls'[p][s] = call
    /\ \A q \in Pages, t \in Slots : ~ (q = p /\ t = s) => calls'[q][t] = calls[q][t]

LEMMA OneCall ==
    ASSUME CallsShape, NEW p \in Pages, NEW s \in Slots, NEW call, CallOK(call),
           calls' = [calls EXCEPT ![p][s] = call]
    PROVE  OnlyCall(p, s, call)
<1>1. /\ DOMAIN calls' = Pages /\ \A q \in Pages : DOMAIN calls'[q] = Slots
      /\ calls'[p][s] = call
      /\ \A q \in Pages, t \in Slots : ~ (q = p /\ t = s) => calls'[q][t] = calls[q][t]
  BY DEF CallsShape
<1>2. \A q \in Pages, t \in Slots : CallOK(calls'[q][t])
  BY <1>1 DEF CallsShape
<1>3. CallsShape'
  <2>1. \A q \in Pages, t \in Slots : CallOK(calls[q][t])'
    BY <1>2 DEF CallOK, Fields, Call
  <2> QED
    BY <1>1, <2>1 DEF CallsShape
<1> QED
  BY <1>1, <1>3 DEF OnlyCall

(* A call that holds no image afterwards leaves the others theirs. *)
LEMMA MediaCall ==
    ASSUME MediaInv, NEW p \in Pages, NEW s \in Slots, NEW call,
           calls' = [calls EXCEPT ![p][s] = call],
           CallOK(call), call # None => call.stage # "stored",
           files' = files, issued' = issued, purge' = purge,
           ImagesOf(posts)' = ImagesOf(posts)
    PROVE  MediaInv'
<1>1. OnlyCall(p, s, call)
  BY OneCall DEF MediaInv
<1>2. \A q \in Pages, t \in Slots : Holds(q, t)' => Holds(q, t) /\ calls'[q][t] = calls[q][t]
  BY <1>1 DEF Holds, Pending, OnlyCall
<1>3. FilesInv'
  BY DEF MediaInv, FilesInv
<1>4. HeldInv'
  BY <1>2 DEF MediaInv, HeldInv
<1> QED
  BY <1>1, <1>3, <1>4 DEF MediaInv, OnlyCall

(* A reply ends what the handler held. *)
LEMMA MediaReply ==
    ASSUME MediaInv, NEW p \in Pages, NEW s \in Slots, NEW call, NEW status,
           DOMAIN call = Fields, Reply(p, s, call, status),
           files' = files, issued' = issued, purge' = purge,
           ImagesOf(posts)' = ImagesOf(posts)
    PROVE  MediaInv'
<1> DEFINE reply == [call EXCEPT !.stage = "replied", !.status = status]
<1>1. calls' = [calls EXCEPT ![p][s] = reply]
  BY DEF Reply
<1>2. DOMAIN reply = Fields /\ reply.stage = "replied"
  BY DEF Fields, Call
<1>3. CallOK(reply)
  BY <1>2 DEF CallOK
<1> HIDE DEF reply
<1>4. reply # None => reply.stage # "stored"
  BY <1>2
<1> QED
  BY <1>1, <1>3, <1>4, MediaCall

LEMMA ImagesSame ==
    ASSUME posts' = posts
    PROVE  ImagesOf(posts)' = ImagesOf(posts)
  BY DEF ImagesOf

(* The requests that never touch an image. *)
LEMMA MediaServe ==
    ASSUME MediaInv, TableInv, NEW p \in Pages, NEW s \in Slots,
           \/ Unauthorised(p, s) \/ ReadRows(p, s) \/ ReadPost(p, s) \/ ListPosts(p, s)
           \/ ToggleLike(p, s) \/ CreateComment(p, s)
    PROVE  MediaInv'
<1> DEFINE call == calls[p][s]
<1>1. DOMAIN call = Fields
  <2>1. CallOK(call) /\ call # None
    BY DEF MediaInv, CallsShape, Unauthorised, ReadRows, ReadPost, ListPosts, ToggleLike,
           CreateComment, Pending
  <2> QED
    BY <2>1 DEF CallOK
<1>2. files' = files /\ issued' = issued /\ purge' = purge
  BY DEF Unauthorised, ReadRows, ReadPost, ListPosts, ToggleLike, CreateComment, media
<1>3. CASE Unauthorised(p, s)
  <2>1. Reply(p, s, call, 401) /\ posts' = posts
    BY <1>3 DEF Unauthorised, store
  <2> QED
    BY <1>1, <1>2, <2>1, ImagesSame, MediaReply
<1>4. CASE ReadRows(p, s)
  <2>1. posts' = posts
    BY <1>4 DEF ReadRows, store
  <2>2. PICK rows : calls' = [calls EXCEPT ![p][s] = [call EXCEPT !.stage = "reading", !.rows = rows]]
    <3>1. DOMAIN calls = Pages /\ DOMAIN calls[p] = Slots
      BY DEF MediaInv, CallsShape
    <3> QED
      BY <1>4, <3>1 DEF ReadRows
  <2> DEFINE new == [call EXCEPT !.stage = "reading", !.rows = rows]
  <2>3. DOMAIN new = Fields /\ new.stage = "reading"
    BY <1>1 DEF Fields, Call
  <2>4. calls' = [calls EXCEPT ![p][s] = new]
    BY <2>2
  <2> HIDE DEF new
  <2>5. CallOK(new) /\ (new # None => new.stage # "stored")
    BY <2>3 DEF CallOK
  <2> QED
    BY <1>2, <2>1, <2>4, <2>5, ImagesSame, MediaCall
<1>5. CASE ReadPost(p, s)
  <2>1. posts' = posts
    BY <1>5 DEF ReadPost, store
  <2>2. PICK view : calls' = [calls EXCEPT ![p][s] = [call EXCEPT !.view = view]]
    <3>1. DOMAIN calls = Pages /\ DOMAIN calls[p] = Slots
      BY DEF MediaInv, CallsShape
    <3>2. PICK view : calls' = [calls EXCEPT ![p][s].view = view]
      BY <1>5 DEF ReadPost
    <3> QED
      BY <3>1, <3>2
  <2> DEFINE new == [call EXCEPT !.view = view]
  <2>3. call.stage = "reading"
    BY <1>5 DEF ReadPost, Pending
  <2>4. DOMAIN new = Fields /\ new.stage = "reading"
    BY <1>1, <2>3 DEF Fields, Call
  <2>5. calls' = [calls EXCEPT ![p][s] = new]
    BY <2>2
  <2> HIDE DEF new
  <2>6. CallOK(new) /\ (new # None => new.stage # "stored")
    BY <2>4 DEF CallOK
  <2> QED
    BY <1>2, <2>1, <2>5, <2>6, ImagesSame, MediaCall
<1>6. CASE ListPosts(p, s)
  <2>1. PICK new : DOMAIN new = Fields /\ Reply(p, s, new, 200)
    <3> DEFINE new == [call EXCEPT !.rows = <<>>,
                                   !.view = IF call.query = "all" THEN @ ELSE <<>>]
    <3>1. DOMAIN new = Fields
      BY <1>1
    <3>2. Reply(p, s, new, 200)
      BY <1>6 DEF ListPosts
    <3> HIDE DEF new
    <3> QED
      BY <3>1, <3>2
  <2>2. posts' = posts
    BY <1>6 DEF ListPosts, store
  <2> QED
    BY <1>2, <2>1, <2>2, ImagesSame, MediaReply
<1>7. CASE ToggleLike(p, s)
  <2>1. PICK new, status : DOMAIN new = Fields /\ Reply(p, s, new, status)
    <3>1. CASE call.post \in DOMAIN posts
      <4>1. PICK liked, count : Reply(p, s, [call EXCEPT !.liked = liked, !.count = count], 200)
        BY <1>7, <3>1 DEF ToggleLike
      <4>2. DOMAIN [call EXCEPT !.liked = liked, !.count = count] = Fields
        BY <1>1
      <4> QED
        BY <4>1, <4>2
    <3>2. CASE call.post \notin DOMAIN posts
      BY <1>1, <1>7, <3>2 DEF ToggleLike
    <3> QED
      BY <3>1, <3>2
  <2>2. posts' = posts
    BY <1>7 DEF ToggleLike
  <2> QED
    BY <1>2, <2>1, <2>2, ImagesSame, MediaReply
<1>8. CASE CreateComment(p, s)
  <2>1. PICK new, status : DOMAIN new = Fields /\ Reply(p, s, new, status)
    <3>1. CASE call.post \in DOMAIN posts
      <4>1. PICK comment, count :
              Reply(p, s, [call EXCEPT !.comment = comment, !.count = count], 201)
        BY <1>8, <3>1 DEF CreateComment
      <4>2. DOMAIN [call EXCEPT !.comment = comment, !.count = count] = Fields
        BY <1>1
      <4> QED
        BY <4>1, <4>2
    <3>2. CASE call.post \notin DOMAIN posts
      BY <1>1, <1>8, <3>2 DEF CreateComment
    <3> QED
      BY <3>1, <3>2
  <2>2. ImagesOf(posts)' = ImagesOf(posts)
    <3>1. posts' = posts \/ posts' = [posts EXCEPT ![call.post].count = @ + 1]
      BY <1>8 DEF CreateComment, Increment
    <3>2. \A id \in DOMAIN posts : DOMAIN posts[id] = {"stamp", "image", "count"}
      BY DEF TableInv
    <3>3. DOMAIN posts' = DOMAIN posts /\ \A id \in DOMAIN posts : posts'[id].image = posts[id].image
      BY <3>1, <3>2
    <3> QED
      BY <3>3 DEF ImagesOf
  <2> QED
    BY <1>2, <2>1, <2>2, MediaReply
<1> QED
  BY <1>3, <1>4, <1>5, <1>6, <1>7, <1>8

(* A new image belongs to the handler that wrote it. *)
LEMMA MediaStore ==
    ASSUME MediaInv, NEW p \in Pages, NEW s \in Slots, StoreImage(p, s)
    PROVE  MediaInv'
<1> DEFINE call == calls[p][s]
<1>0. PICK new : new = issued + 1
  OBVIOUS
<1>1. /\ posts' = posts /\ purge' = purge /\ issued' = new /\ files' = files \cup {new}
      /\ call # None /\ DOMAIN call = Fields
  BY <1>0 DEF StoreImage, Pending, store, MediaInv, CallsShape, CallOK
<1>2. ImagesOf(posts)' = ImagesOf(posts)
  BY <1>1, ImagesSame
<1>3. new \notin files /\ issued' \in 0 .. MaxImages /\ files' \subseteq 1 .. issued'
  <2>1. issued < MaxImages
    BY DEF StoreImage
  <2> QED
    BY <1>0, <1>1, <2>1, StoreAssumption DEF MediaInv, FilesInv
<1>4. FilesInv'
  BY <1>1, <1>2, <1>3 DEF MediaInv, FilesInv
<1>5. PICK after : /\ calls' = [calls EXCEPT ![p][s] = after] /\ DOMAIN after = Fields
                   /\ \/ after.stage = "stored" /\ after.image = new
                      \/ after.stage = "replied"
  <2>1. CASE calls' = [calls EXCEPT ![p][s] = Stored(issued + 1)]
    <3>1. /\ DOMAIN Stored(new) = Fields
          /\ Stored(new).stage = "stored" /\ Stored(new).image = new
      BY DEF Stored, Fields, Call
    <3>2. calls' = [calls EXCEPT ![p][s] = Stored(new)]
      BY <1>0, <2>1
    <3> QED
      BY <3>1, <3>2
  <2>2. CASE Reply(p, s, call, 500)
    <3> DEFINE after == [call EXCEPT !.stage = "replied", !.status = 500]
    <3>1. DOMAIN after = Fields /\ after.stage = "replied"
      BY <1>1 DEF Fields, Call
    <3>2. calls' = [calls EXCEPT ![p][s] = after]
      BY <2>2 DEF Reply
    <3> HIDE DEF after
    <3> QED
      BY <3>1, <3>2
  <2> QED
    BY <2>1, <2>2 DEF StoreImage
<1>6. OnlyCall(p, s, after)
  <2>1. CallOK(after)
    BY <1>5 DEF CallOK
  <2> QED
    BY <1>5, <2>1, OneCall DEF MediaInv
<1>7. \A q \in Pages, t \in Slots :
        Holds(q, t)' => \/ q = p /\ t = s /\ calls'[q][t].image = new
                        \/ ~ (q = p /\ t = s) /\ Holds(q, t) /\ calls'[q][t] = calls[q][t]
  <2> SUFFICES ASSUME NEW q \in Pages, NEW t \in Slots, Holds(q, t)'
               PROVE  \/ q = p /\ t = s /\ calls'[q][t].image = new
                      \/ ~ (q = p /\ t = s) /\ Holds(q, t) /\ calls'[q][t] = calls[q][t]
    OBVIOUS
  <2>1. calls'[q][t].stage = "stored"
    BY DEF Holds, Pending
  <2>2. CASE q = p /\ t = s
    <3>1. calls'[q][t] = after
      BY <1>6, <2>2 DEF OnlyCall
    <3> QED
      BY <1>5, <2>1, <2>2, <3>1
  <2>3. CASE ~ (q = p /\ t = s)
    <3>1. calls'[q][t] = calls[q][t]
      BY <1>6, <2>3 DEF OnlyCall
    <3>2. Holds(q, t)
      BY <3>1 DEF Holds, Pending
    <3> QED
      BY <2>3, <3>1, <3>2
  <2> QED
    BY <2>2, <2>3
<1>8. \A q \in Pages, t \in Slots : Holds(q, t) => calls[q][t].image # new
  BY <1>3 DEF MediaInv, HeldInv
<1>9. new \notin ImagesOf(posts) /\ (purge # None => new \notin purge)
  BY <1>3 DEF MediaInv, FilesInv
<1>10. \A q \in Pages, t \in Slots : Holds(q, t)' =>
         /\ calls'[q][t].image \in files' /\ calls'[q][t].image \notin ImagesOf(posts)'
         /\ purge' # None => calls'[q][t].image \notin purge'
  BY <1>1, <1>2, <1>7, <1>9 DEF MediaInv, HeldInv
<1>11. \A q, r \in Pages, t, u \in Slots :
         Holds(q, t)' /\ Holds(r, u)' /\ calls'[q][t].image = calls'[r][u].image => q = r /\ t = u
  BY <1>7, <1>8 DEF MediaInv, HeldInv
<1> QED
  BY <1>4, <1>6, <1>10, <1>11 DEF MediaInv, HeldInv, OnlyCall

(* The image goes over from its handler to its post. *)
LEMMA MediaCreate ==
    ASSUME MediaInv, TableInv, NEW p \in Pages, NEW s \in Slots, CreatePost(p, s)
    PROVE  MediaInv'
<1> DEFINE call == calls[p][s]
<1>1. /\ files' = files /\ issued' = issued /\ purge' = purge
      /\ DOMAIN call = Fields
      /\ Holds(p, s) \/ call.image = None
  BY DEF CreatePost, Holds, Pending, media, MediaInv, CallsShape, CallOK
<1>2. PICK after : /\ calls' = [calls EXCEPT ![p][s] = after] /\ DOMAIN after = Fields
                   /\ after.stage = "replied"
  <2> DEFINE after == [call EXCEPT !.stage = "replied", !.status = 201]
  <2>1. DOMAIN after = Fields /\ after.stage = "replied"
    BY <1>1 DEF Fields, Call
  <2>2. calls' = [calls EXCEPT ![p][s] = after]
    BY DEF CreatePost, Reply
  <2> HIDE DEF after
  <2> QED
    BY <2>1, <2>2
<1>3. OnlyCall(p, s, after)
  <2>1. CallOK(after)
    BY <1>2 DEF CallOK
  <2> QED
    BY <1>2, <2>1, OneCall DEF MediaInv
<1>4. \A q \in Pages, t \in Slots : Holds(q, t)' =>
        /\ ~ (q = p /\ t = s) /\ Holds(q, t) /\ calls'[q][t] = calls[q][t]
  BY <1>2, <1>3 DEF Holds, Pending, OnlyCall
<1>5. ImagesOf(posts)' \subseteq ImagesOf(posts) \cup ({call.image} \ {None})
  <2>1. PICK row : /\ row.image = call.image
                   /\ posts' = [id \in DOMAIN posts \cup {lastPost + 1} |->
                                  IF id = lastPost + 1 THEN row ELSE posts[id]]
    <3> DEFINE row == [stamp |-> published + 1, image |-> call.image, count |-> 0]
    <3>1. posts' = [id \in DOMAIN posts \cup {lastPost + 1} |->
                      IF id = lastPost + 1 THEN row ELSE posts[id]]
      BY DEF CreatePost, Insert, NextPost
    <3>2. row.image = call.image
      OBVIOUS
    <3> HIDE DEF row
    <3> QED
      BY <3>1, <3>2
  <2> QED
    BY <2>1 DEF ImagesOf
<1>6. CASE Holds(p, s)
  <2>1. /\ call.image \in files
        /\ purge # None => call.image \notin purge
        /\ \A q \in Pages, t \in Slots : Holds(q, t)' => calls'[q][t].image # call.image
    BY <1>4, <1>6 DEF MediaInv, HeldInv
  <2>2. FilesInv'
    BY <1>1, <1>5, <2>1 DEF MediaInv, FilesInv
  <2>3. HeldInv'
    BY <1>1, <1>4, <1>5, <2>1 DEF MediaInv, HeldInv
  <2> QED
    BY <1>3, <2>2, <2>3 DEF MediaInv, OnlyCall
<1>7. CASE call.image = None
  <2>1. ImagesOf(posts)' \subseteq ImagesOf(posts)
    BY <1>5, <1>7
  <2>2. FilesInv'
    BY <1>1, <2>1 DEF MediaInv, FilesInv
  <2>3. HeldInv'
    BY <1>1, <1>4, <2>1 DEF MediaInv, HeldInv
  <2> QED
    BY <1>3, <2>2, <2>3 DEF MediaInv, OnlyCall
<1> QED
  BY <1>1, <1>6, <1>7

(* Only the failing handler held the image it removes. *)
LEMMA MediaFail ==
    ASSUME MediaInv, NEW p \in Pages, NEW s \in Slots, FailPublish(p, s)
    PROVE  MediaInv'
<1> DEFINE call == calls[p][s]
<1>1. /\ posts' = posts /\ issued' = issued /\ purge' = purge
      /\ files' = files \ {call.image}
      /\ DOMAIN call = Fields /\ Holds(p, s)
  BY DEF FailPublish, RemoveImage, Holds, Pending, store, MediaInv, CallsShape, CallOK
<1>2. PICK after : /\ calls' = [calls EXCEPT ![p][s] = after] /\ DOMAIN after = Fields
                   /\ after.stage = "replied"
  <2> DEFINE after == [call EXCEPT !.stage = "replied", !.status = 500]
  <2>1. DOMAIN after = Fields /\ after.stage = "replied"
    BY <1>1 DEF Fields, Call
  <2>2. calls' = [calls EXCEPT ![p][s] = after]
    BY DEF FailPublish, Reply
  <2> HIDE DEF after
  <2> QED
    BY <2>1, <2>2
<1>3. OnlyCall(p, s, after)
  <2>1. CallOK(after)
    BY <1>2 DEF CallOK
  <2> QED
    BY <1>2, <2>1, OneCall DEF MediaInv
<1>4. \A q \in Pages, t \in Slots : Holds(q, t)' =>
        /\ ~ (q = p /\ t = s) /\ Holds(q, t) /\ calls'[q][t] = calls[q][t]
  BY <1>2, <1>3 DEF Holds, Pending, OnlyCall
<1>5. ImagesOf(posts)' = ImagesOf(posts)
  BY <1>1, ImagesSame
<1>6. /\ call.image \notin ImagesOf(posts)
      /\ purge # None => call.image \notin purge
      /\ \A q \in Pages, t \in Slots : Holds(q, t)' => calls'[q][t].image # call.image
  BY <1>1, <1>4 DEF MediaInv, HeldInv
<1>7. FilesInv'
  BY <1>1, <1>5, <1>6 DEF MediaInv, FilesInv
<1>8. HeldInv'
  BY <1>1, <1>4, <1>5, <1>6 DEF MediaInv, HeldInv
<1> QED
  BY <1>3, <1>7, <1>8 DEF MediaInv, OnlyCall

LEMMA MediaHeldSame ==
    ASSUME MediaInv, calls' = calls
    PROVE  CallsShape' /\ \A p \in Pages, s \in Slots : Holds(p, s)' = Holds(p, s)
  BY DEF MediaInv, CallsShape, CallOK, Fields, Call, Holds, Pending

(* The images of the deleted posts are now the reset's to remove. *)
LEMMA MediaReset ==
    ASSUME MediaInv, Reset
    PROVE  MediaInv'
<1>1. /\ posts' = [id \in {} |-> None] /\ purge' = ImagesOf(posts)
      /\ files' = files /\ issued' = issued /\ calls' = calls
  BY DEF Reset
<1>2. ImagesOf(posts)' = {}
  BY <1>1 DEF ImagesOf
<1>3. FilesInv'
  BY <1>1, <1>2 DEF MediaInv, FilesInv
<1>4. HeldInv'
  BY <1>1, <1>2, MediaHeldSame DEF MediaInv, HeldInv
<1> QED
  BY <1>1, <1>3, <1>4, MediaHeldSame DEF MediaInv

LEMMA MediaRemove ==
    ASSUME MediaInv, RemoveMedia
    PROVE  MediaInv'
<1>1. posts' = posts /\ issued' = issued /\ calls' = calls /\ purge # None
  BY DEF RemoveMedia, store
<1>2. ImagesOf(posts)' = ImagesOf(posts)
  BY <1>1, ImagesSame
<1>3. CASE purge = {}
  <2>1. purge' = None /\ files' = files
    BY <1>3 DEF RemoveMedia
  <2>2. FilesInv' /\ HeldInv'
    BY <1>1, <1>2, <2>1, MediaHeldSame DEF MediaInv, FilesInv, HeldInv
  <2> QED
    BY <1>1, <2>2, MediaHeldSame DEF MediaInv
<1>4. CASE purge # {}
  <2>1. PICK name \in purge : purge' = purge \ {name} /\ files' = files \ {name}
    BY <1>4 DEF RemoveMedia
  <2>2. name \notin ImagesOf(posts)
        /\ \A p \in Pages, s \in Slots : Holds(p, s) => calls[p][s].image # name
    BY <1>1, <2>1 DEF MediaInv, FilesInv, HeldInv
  <2>3. FilesInv'
    BY <1>1, <1>2, <2>1, <2>2 DEF MediaInv, FilesInv
  <2>4. HeldInv'
    BY <1>1, <1>2, <2>1, <2>2, MediaHeldSame DEF MediaInv, HeldInv
  <2> QED
    BY <1>1, <2>3, <2>4, MediaHeldSame DEF MediaInv
<1> QED
  BY <1>3, <1>4

(* After a restart no handler holds an image any more. *)
LEMMA MediaRestart ==
    ASSUME MediaInv, Restart
    PROVE  MediaInv'
<1>1. posts' = posts /\ files' = files /\ issued' = issued /\ purge' = None
  BY DEF Restart, store
<1>2. ImagesOf(posts)' = ImagesOf(posts)
  BY <1>1, ImagesSame
<1>3. calls' = [p \in Pages |-> [s \in Slots |->
                  IF calls[p][s] = None \/ calls[p][s].stage = "replied" THEN calls[p][s]
                  ELSE [calls[p][s] EXCEPT !.stage = "replied", !.status = 0]]]
  BY DEF Restart
<1>4. ASSUME NEW p \in Pages, NEW s \in Slots
      PROVE  CallOK(calls'[p][s]) /\ ~ Holds(p, s)'
  <2>1. CASE calls[p][s] = None \/ calls[p][s].stage = "replied"
    <3>1. calls'[p][s] = calls[p][s]
      BY <1>3, <2>1
    <3> QED
      BY <2>1, <3>1 DEF MediaInv, CallsShape, Holds, Pending
  <2>2. CASE ~ (calls[p][s] = None \/ calls[p][s].stage = "replied")
    <3> DEFINE call == [calls[p][s] EXCEPT !.stage = "replied", !.status = 0]
    <3>1. calls'[p][s] = call
      BY <1>3, <2>2
    <3>2. DOMAIN calls[p][s] = Fields
      BY <2>2 DEF MediaInv, CallsShape, CallOK
    <3>3. DOMAIN call = Fields /\ call.stage = "replied"
      BY <3>2 DEF Fields, Call
    <3> HIDE DEF call
    <3> QED
      BY <3>1, <3>3 DEF CallOK, Holds, Pending
  <2> QED
    BY <2>1, <2>2
<1>5. CallsShape'
  <2>1. \A p \in Pages, s \in Slots : CallOK(calls[p][s])'
    BY <1>4 DEF CallOK, Fields, Call
  <2> QED
    BY <1>3, <2>1 DEF CallsShape
<1>6. FilesInv' /\ HeldInv'
  BY <1>1, <1>2, <1>4 DEF MediaInv, FilesInv, HeldInv
<1> QED
  BY <1>5, <1>6 DEF MediaInv

LEMMA MediaSame ==
    ASSUME MediaInv, posts' = posts, files' = files, issued' = issued, purge' = purge, calls' = calls
    PROVE  MediaInv'
<1>1. ImagesOf(posts)' = ImagesOf(posts)
  BY ImagesSame
<1>2. FilesInv' /\ HeldInv'
  BY <1>1, MediaHeldSame DEF MediaInv, FilesInv, HeldInv
<1> QED
  BY <1>2, MediaHeldSame DEF MediaInv

(* What a page sends or takes off its slots holds no image. *)
LEMMA MediaBrowse ==
    ASSUME MediaInv, NEW p \in Pages, Browse(p)
    PROVE  MediaInv'
<1>1. posts' = posts /\ files' = files /\ issued' = issued /\ purge' = purge
  BY DEF Browse, Login, BeginLoad, EndLoad, BeginAction, BeginPublish, EndAction, Send, Receive,
         store, media
<1>2. ASSUME NEW s \in Slots, NEW kind, NEW post, NEW stamp, NEW key, NEW query,
             Send(p, s, Call(kind, post, stamp, key, query))
      PROVE  MediaInv'
  <2> DEFINE call == Call(kind, post, stamp, key, query)
  <2>1. DOMAIN call = Fields /\ call.stage = "sent" /\ call.image = None
    BY DEF Fields, Call
  <2>2. calls' = [calls EXCEPT ![p][s] = call]
    BY <1>2 DEF Send
  <2> HIDE DEF call
  <2>3. CallOK(call) /\ (call # None => call.stage # "stored")
    BY <2>1 DEF CallOK
  <2> QED
    BY <1>1, <2>2, <2>3, ImagesSame, MediaCall
<1>3. ASSUME NEW s \in Slots, Receive(p, s) PROVE MediaInv'
  <2>1. calls' = [calls EXCEPT ![p][s] = None] /\ CallOK(None)
    BY <1>3 DEF Receive, CallOK
  <2> QED
    BY <1>1, <2>1, ImagesSame, MediaCall
<1>4. CASE Login(p)
  BY <1>1, <1>4, MediaSame DEF Login
<1>5. ASSUME NEW s \in Slots, NEW query \in Queries, BeginLoad(p, s, query) PROVE MediaInv'
  BY <1>2, <1>5 DEF BeginLoad
<1>6. ASSUME NEW s \in Slots, EndLoad(p, s) PROVE MediaInv'
  BY <1>3, <1>6 DEF EndLoad
<1>7. ASSUME NEW kind, BeginAction(p, kind) PROVE MediaInv'
  BY <1>2, <1>7, SlotsAssumption DEF BeginAction
<1>8. CASE BeginPublish(p)
  BY <1>2, <1>8, SlotsAssumption DEF BeginPublish
<1>9. CASE EndAction(p)
  BY <1>3, <1>9, SlotsAssumption DEF EndAction
<1> QED
  BY <1>4, <1>5, <1>6, <1>7, <1>8, <1>9 DEF Browse

LEMMA MediaStep == MediaInv /\ TableInv /\ [Next]_vars => MediaInv'
<1> SUFFICES ASSUME MediaInv, TableInv, [Next]_vars PROVE MediaInv'
  OBVIOUS
<1>1. CASE UNCHANGED vars
  BY <1>1, MediaSame DEF vars, server, store, media
<1>2. ASSUME NEW p \in Pages, EndSession(p) PROVE MediaInv'
  BY <1>2, MediaSame DEF EndSession, store, media
<1> QED
  BY <1>1, <1>2, MediaServe, MediaStore, MediaCreate, MediaFail, MediaReset, MediaRemove,
     MediaRestart, MediaBrowse DEF Next, Serve

(* media.py, main.py create_post() and reset(): the image of a listed post  *)
(* is never removed, neither by the handler of another publish that fails   *)
(* nor by a reset that is still removing what it found.                     *)
THEOREM ImagesStayStored == Spec => []ImagesAreStored
<1>1. MediaInv => ImagesAreStored
  BY DEF MediaInv, FilesInv, ImagesAreStored
<1> QED
  BY TableInit, TableStep, MediaInit, MediaStep, <1>1, PTL DEF Spec

-----------------------------------------------------------------------------
(* MEDIA-01 *)

LEMMA FilesBounded ==
    ASSUME FilesInv
    PROVE  files \subseteq 1 .. MaxImages
<1>1. issued \in 0 .. MaxImages /\ files \subseteq 1 .. issued
  BY DEF FilesInv
<1>2. 1 .. issued \subseteq 1 .. MaxImages
  BY <1>1, StoreAssumption
<1> QED
  BY <1>1, <1>2

(* Every file has an owner, unless a history left one behind. *)
Accounted ==
    ~ spoiled => \A name \in files :
        \/ name \in ImagesOf(posts)
        \/ purge # None /\ name \in purge
        \/ \E p \in Pages, s \in Slots : Holds(p, s) /\ calls[p][s].image = name

(* What a step that neither adds a file nor lets go of one preserves. *)
LEMMA AccountedSame ==
    ASSUME Accounted, files' = files, purge' = purge, spoiled' = spoiled,
           ImagesOf(posts)' = ImagesOf(posts),
           \A p \in Pages, s \in Slots :
               Holds(p, s) => Holds(p, s)' /\ calls'[p][s].image = calls[p][s].image
    PROVE  Accounted'
  BY DEF Accounted

(* A handler touches its own call only. *)
LEMMA OwnCallOnly ==
    ASSUME CallsShape, NEW p \in Pages, NEW s \in Slots,
           \/ Unauthorised(p, s) \/ ReadRows(p, s) \/ ReadPost(p, s) \/ ListPosts(p, s)
           \/ ToggleLike(p, s) \/ CreateComment(p, s)
           \/ StoreImage(p, s) \/ CreatePost(p, s) \/ FailPublish(p, s)
    PROVE  \A q \in Pages, t \in Slots : ~ (q = p /\ t = s) => calls'[q][t] = calls[q][t]
<1>1. \/ \E call : calls' = [calls EXCEPT ![p][s] = call]
      \/ \E view : calls' = [calls EXCEPT ![p][s].view = view]
  BY DEF Unauthorised, ReadRows, ReadPost, ListPosts, ToggleLike, CreateComment, StoreImage,
         CreatePost, FailPublish, Reply
<1>2. DOMAIN calls = Pages /\ \A q \in Pages : DOMAIN calls[q] = Slots
  BY DEF CallsShape
<1> QED
  BY <1>1, <1>2

(* A handler whose call held no image does not matter. *)
LEMMA AccountedCall ==
    ASSUME Accounted, NEW p \in Pages, NEW s \in Slots, ~ Holds(p, s),
           \A q \in Pages, t \in Slots : ~ (q = p /\ t = s) => calls'[q][t] = calls[q][t],
           files' = files, purge' = purge, spoiled' = spoiled,
           ImagesOf(posts)' = ImagesOf(posts)
    PROVE  Accounted'
<1>1. ASSUME NEW q \in Pages, NEW t \in Slots, Holds(q, t)
      PROVE  Holds(q, t)' /\ calls'[q][t].image = calls[q][t].image
  <2>1. calls'[q][t] = calls[q][t]
    BY <1>1
  <2> QED
    BY <1>1, <2>1 DEF Holds, Pending
<1> QED
  BY <1>1, AccountedSame

LEMMA AccountedServe ==
    ASSUME Accounted, MediaInv, TableInv, NEW p \in Pages, NEW s \in Slots,
           \/ Unauthorised(p, s) \/ ReadRows(p, s) \/ ReadPost(p, s) \/ ListPosts(p, s)
           \/ ToggleLike(p, s) \/ CreateComment(p, s)
    PROVE  Accounted'
<1>1. \A q \in Pages, t \in Slots : ~ (q = p /\ t = s) => calls'[q][t] = calls[q][t]
  BY OwnCallOnly DEF MediaInv
<1>2. ~ Holds(p, s)
  BY DEF Holds, Pending, Unauthorised, ReadRows, ReadPost, ListPosts, ToggleLike, CreateComment
<1>3. files' = files /\ purge' = purge /\ spoiled' = spoiled
  BY DEF Unauthorised, ReadRows, ReadPost, ListPosts, ToggleLike, CreateComment, media
<1>4. ImagesOf(posts)' = ImagesOf(posts)
  <2>1. CASE posts' = posts
    BY <2>1, ImagesSame
  <2>2. CASE posts' = [posts EXCEPT ![calls[p][s].post].count = @ + 1]
    <3>1. \A id \in DOMAIN posts : DOMAIN posts[id] = {"stamp", "image", "count"}
      BY DEF TableInv
    <3>2. DOMAIN posts' = DOMAIN posts /\ \A id \in DOMAIN posts : posts'[id].image = posts[id].image
      BY <2>2, <3>1
    <3> QED
      BY <3>2 DEF ImagesOf
  <2> QED
    BY <2>1, <2>2 DEF Unauthorised, ReadRows, ReadPost, ListPosts, ToggleLike, CreateComment,
                      Increment, store
<1> QED
  BY <1>1, <1>2, <1>3, <1>4, AccountedCall

(* The new image is its handler's, or the failed write is remembered. *)
LEMMA AccountedStore ==
    ASSUME Accounted, MediaInv, NEW p \in Pages, NEW s \in Slots, StoreImage(p, s)
    PROVE  Accounted'
<1>1. \A q \in Pages, t \in Slots : ~ (q = p /\ t = s) => calls'[q][t] = calls[q][t]
  BY OwnCallOnly DEF MediaInv
<1>2. ~ Holds(p, s)
  BY DEF Holds, Pending, StoreImage
<1>3. files' = files \cup {issued + 1} /\ purge' = purge /\ ImagesOf(posts)' = ImagesOf(posts)
  BY ImagesSame DEF StoreImage, store
<1>4. CASE spoiled'
  BY <1>4 DEF Accounted
<1>5. CASE ~ spoiled'
  <2>1. calls' = [calls EXCEPT ![p][s] = Stored(issued + 1)] /\ spoiled' = spoiled
    BY <1>5 DEF StoreImage
  <2>2. calls'[p][s] = Stored(issued + 1)
    BY <2>1 DEF MediaInv, CallsShape
  <2>3. calls'[p][s].kind = "publish" /\ calls'[p][s].stage = "stored" /\ calls'[p][s].image = issued + 1
    BY <2>2 DEF Stored, Call
  <2>4. Holds(p, s)'
    <3>1. issued + 1 \in 1 .. MaxImages
      BY StoreAssumption DEF StoreImage, MediaInv, FilesInv
    <3> QED
      BY <2>2, <2>3, <3>1, StoreAssumption DEF Holds, Pending
  <2>5. \A q \in Pages, t \in Slots :
           Holds(q, t) => Holds(q, t)' /\ calls'[q][t].image = calls[q][t].image
    <3> TAKE q \in Pages, t \in Slots
    <3> HAVE Holds(q, t)
    <3>1. calls'[q][t] = calls[q][t]
      BY <1>1, <1>2
    <3> QED
      BY <3>1 DEF Holds, Pending
  <2> QED
    BY <1>3, <2>1, <2>3, <2>4, <2>5 DEF Accounted
<1> QED
  BY <1>4, <1>5

(* The image passes from the handler to the new post; the old posts stay.   *)
LEMMA AccountedCreate ==
    ASSUME Accounted, MediaInv, TableInv, NEW p \in Pages, NEW s \in Slots, CreatePost(p, s)
    PROVE  Accounted'
<1>1. \A q \in Pages, t \in Slots : ~ (q = p /\ t = s) => calls'[q][t] = calls[q][t]
  BY OwnCallOnly DEF MediaInv
<1>2. files' = files /\ purge' = purge /\ spoiled' = spoiled
  BY DEF CreatePost, media
<1>3. PICK row : /\ row.image = calls[p][s].image
                 /\ posts' = [id \in DOMAIN posts \cup {lastPost + 1} |->
                                IF id = lastPost + 1 THEN row ELSE posts[id]]
  <2> DEFINE row == [stamp |-> published + 1, image |-> calls[p][s].image, count |-> 0]
  <2>1. row.image = calls[p][s].image
    OBVIOUS
  <2>2. posts' = [id \in DOMAIN posts \cup {lastPost + 1} |->
                    IF id = lastPost + 1 THEN row ELSE posts[id]]
    BY DEF CreatePost, Insert, NextPost
  <2> HIDE DEF row
  <2> QED
    BY <2>1, <2>2
<1>4. lastPost + 1 \notin DOMAIN posts
  BY DEF TableInv
<1>5. /\ ImagesOf(posts) \subseteq ImagesOf(posts)'
      /\ calls[p][s].image # None => calls[p][s].image \in ImagesOf(posts)'
  BY <1>3, <1>4 DEF ImagesOf
<1>6. \A name \in files : name # None
  <2>1. files \subseteq 1 .. MaxImages
    BY FilesBounded DEF MediaInv
  <2> QED
    BY <2>1, StoreAssumption
<1>7. \A q \in Pages, t \in Slots :
          Holds(q, t) => \/ q = p /\ t = s
                         \/ Holds(q, t)' /\ calls'[q][t].image = calls[q][t].image
  <2> TAKE q \in Pages, t \in Slots
  <2> HAVE Holds(q, t)
  <2>1. CASE ~ (q = p /\ t = s)
    <3>1. calls'[q][t] = calls[q][t]
      BY <1>1, <2>1
    <3> QED
      BY <3>1 DEF Holds, Pending
  <2> QED
    BY <2>1
<1> QED
  BY <1>2, <1>5, <1>6, <1>7 DEF Accounted

LEMMA AccountedFail ==
    ASSUME Accounted, MediaInv, NEW p \in Pages, NEW s \in Slots, FailPublish(p, s)
    PROVE  Accounted'
<1>1. \A q \in Pages, t \in Slots : ~ (q = p /\ t = s) => calls'[q][t] = calls[q][t]
  BY OwnCallOnly DEF MediaInv
<1>2. /\ files' = files \ {calls[p][s].image} /\ purge' = purge /\ spoiled' = spoiled
      /\ ImagesOf(posts)' = ImagesOf(posts)
  BY ImagesSame DEF FailPublish, RemoveImage, store
<1>3. \A q \in Pages, t \in Slots :
          Holds(q, t) => \/ q = p /\ t = s
                         \/ Holds(q, t)' /\ calls'[q][t].image = calls[q][t].image
  <2> TAKE q \in Pages, t \in Slots
  <2> HAVE Holds(q, t)
  <2>1. CASE ~ (q = p /\ t = s)
    <3>1. calls'[q][t] = calls[q][t]
      BY <1>1, <2>1
    <3> QED
      BY <3>1 DEF Holds, Pending
  <2> QED
    BY <2>1
<1> QED
  BY <1>2, <1>3 DEF Accounted

(* A reset takes over the images of all posts, and removes one at a time.   *)
LEMMA AccountedReset ==
    ASSUME Accounted, MediaInv, Reset \/ RemoveMedia
    PROVE  Accounted'
<1>1. \A p \in Pages, s \in Slots : Holds(p, s)' = Holds(p, s) /\ calls'[p][s] = calls[p][s]
  BY DEF Reset, RemoveMedia, Holds, Pending
<1>2. CASE Reset
  <2>1. files' = files /\ purge = None /\ purge' = ImagesOf(posts) /\ spoiled' = spoiled
    BY <1>2 DEF Reset
  <2>2. purge' # None
    <3>1. ImagesOf(posts) \subseteq 1 .. MaxImages
      BY FilesBounded DEF MediaInv, FilesInv
    <3> QED
      BY <2>1, <3>1, StoreAssumption
  <2> QED
    BY <1>1, <2>1, <2>2 DEF Accounted
<1>3. CASE RemoveMedia
  <2>1. ImagesOf(posts)' = ImagesOf(posts) /\ spoiled' = spoiled /\ purge # None
    BY <1>3, ImagesSame DEF RemoveMedia, store
  <2>2. CASE purge = {}
    <3>1. files' = files
      BY <1>3, <2>2 DEF RemoveMedia
    <3> QED
      BY <1>1, <2>1, <2>2, <3>1 DEF Accounted
  <2>3. CASE purge # {}
    <3>1. PICK name \in purge : purge' = purge \ {name} /\ files' = files \ {name}
      BY <1>3, <2>3 DEF RemoveMedia
    <3>2. purge' \subseteq 1 .. MaxImages
      BY <2>1, <3>1, FilesBounded DEF MediaInv, FilesInv
    <3>3. purge' # None
      BY <3>2, StoreAssumption
    <3> QED
      BY <1>1, <2>1, <3>1, <3>3 DEF Accounted
  <2> QED
    BY <2>2, <2>3
<1> QED
  BY <1>2, <1>3

LEMMA AccountedRestart ==
    ASSUME Accounted, Restart
    PROVE  Accounted'
<1>1. CASE spoiled'
  BY <1>1 DEF Accounted
<1>2. CASE ~ spoiled'
  <2>1. /\ ~ spoiled /\ purge = None
        /\ \A p \in Pages, s \in Slots : ~ Holds(p, s)
    BY <1>2 DEF Restart, Holds
  <2>2. files' = files /\ ImagesOf(posts)' = ImagesOf(posts)
    BY ImagesSame DEF Restart, store
  <2> QED
    BY <2>1, <2>2 DEF Accounted
<1> QED
  BY <1>1, <1>2

(* A page never takes a publishing call off its slot before it is answered. *)
LEMMA AccountedBrowse ==
    ASSUME Accounted, MediaInv, NEW p \in Pages, Browse(p)
    PROVE  Accounted'
<1>1. /\ files' = files /\ purge' = purge /\ spoiled' = spoiled /\ ImagesOf(posts)' = ImagesOf(posts)
  BY ImagesSame DEF Browse, Login, BeginLoad, EndLoad, BeginAction, BeginPublish, EndAction, Send,
                    Receive, store, media
<1>2. \/ calls' = calls
      \/ \E s \in Slots : \E call :
           /\ calls[p][s] = None \/ calls[p][s].stage = "replied"
           /\ calls' = [calls EXCEPT ![p][s] = call]
  <2>1. ASSUME NEW s \in Slots, NEW call, Send(p, s, call)
        PROVE  calls[p][s] = None /\ calls' = [calls EXCEPT ![p][s] = call]
    BY <2>1 DEF Send
  <2>2. ASSUME NEW s \in Slots, Receive(p, s)
        PROVE  calls[p][s].stage = "replied" /\ calls' = [calls EXCEPT ![p][s] = None]
    BY <2>2 DEF Receive
  <2>3. CASE Login(p)
    BY <2>3 DEF Login
  <2>4. ASSUME NEW s \in Slots, NEW query, BeginLoad(p, s, query)
        PROVE  \E call : Send(p, s, call)
    BY <2>4 DEF BeginLoad
  <2>5. ASSUME NEW s \in Slots, EndLoad(p, s) PROVE Receive(p, s)
    BY <2>5 DEF EndLoad
  <2>6. ASSUME NEW kind, BeginAction(p, kind) PROVE \E call : Send(p, "act", call)
    BY <2>6 DEF BeginAction
  <2>7. ASSUME BeginPublish(p) PROVE \E call : Send(p, "act", call)
    BY <2>7 DEF BeginPublish
  <2>8. ASSUME EndAction(p) PROVE Receive(p, "act")
    BY <2>8 DEF EndAction
  <2>9. CASE \E s \in Slots : \E call : Send(p, s, call)
    BY <2>1, <2>9
  <2>10. CASE \E s \in Slots : Receive(p, s)
    BY <2>2, <2>10
  <2> QED
    BY <2>3, <2>4, <2>5, <2>6, <2>7, <2>8, <2>9, <2>10, SlotsAssumption DEF Browse
<1>3. CASE calls' = calls
  BY <1>1, <1>3, AccountedSame DEF Holds, Pending
<1>4. ASSUME NEW s \in Slots, NEW call,
             calls[p][s] = None \/ calls[p][s].stage = "replied",
             calls' = [calls EXCEPT ![p][s] = call]
      PROVE  Accounted'
  <2>1. ~ Holds(p, s)
    BY <1>4 DEF Holds, Pending
  <2>2. \A q \in Pages, t \in Slots : ~ (q = p /\ t = s) => calls'[q][t] = calls[q][t]
    BY <1>4 DEF MediaInv, CallsShape
  <2> QED
    BY <1>1, <2>1, <2>2, AccountedCall
<1> QED
  BY <1>2, <1>3, <1>4

LEMMA AccountedStep == Accounted /\ MediaInv /\ TableInv /\ [Next]_vars => Accounted'
<1> SUFFICES ASSUME Accounted, MediaInv, TableInv, [Next]_vars PROVE Accounted'
  OBVIOUS
<1>1. CASE UNCHANGED vars
  BY <1>1, ImagesSame, AccountedSame DEF vars, server, store, media, Holds, Pending
<1>2. ASSUME NEW p \in Pages, EndSession(p) PROVE Accounted'
  BY <1>2, ImagesSame, AccountedSame DEF EndSession, store, media, Holds, Pending
<1> QED
  BY <1>1, <1>2, AccountedServe, AccountedStore, AccountedCreate, AccountedFail, AccountedReset,
     AccountedRestart, AccountedBrowse DEF Next, Serve

(* MEDIA-01, main.py create_post() and reset(): while nothing is published  *)
(* or reset, the media directory holds the images of the posts and nothing  *)
(* else, unless a restart or a failed write interrupted one of them.        *)
THEOREM NoImageIsOrphaned == Spec => []NoOrphanImages
<1>1. Init => Accounted
  BY DEF Init, ServerInit, Accounted
<1>2. MediaInv /\ Accounted => NoOrphanImages
  BY DEF MediaInv, FilesInv, Accounted, NoOrphanImages, Holds
<1> QED
  BY TableInit, TableStep, MediaInit, MediaStep, <1>1, AccountedStep, <1>2, PTL DEF Spec

-----------------------------------------------------------------------------
(* Sequences, and what Ascending() and Reverse() return *)

IsSeq(s) == Len(s) \in Nat /\ s = [i \in 1 .. Len(s) |-> s[i]]

Elements(s) == {s[i] : i \in 1 .. Len(s)}

LEMMA SeqShape ==
    ASSUME NEW s
    PROVE  IsSeq(s) <=> s \in Seq(Elements(s))
<1>1. ASSUME IsSeq(s) PROVE s \in Seq(Elements(s))
  <2>1. s \in [1 .. Len(s) -> Elements(s)]
    BY <1>1 DEF IsSeq, Elements
  <2> QED
    BY <2>1, <1>1, SeqDef DEF IsSeq
<1>2. ASSUME s \in Seq(Elements(s)) PROVE IsSeq(s)
  BY <1>2, LenProperties DEF IsSeq
<1> QED
  BY <1>1, <1>2

LEMMA SeqFromSet ==
    ASSUME NEW S, NEW s \in Seq(S)
    PROVE  IsSeq(s)
  BY LenProperties DEF IsSeq

(* An empty page. *)
LEMMA NoCards == IsSeq(<<>>) /\ Elements(<<>>) = {}
<1>1. <<>> \in Seq({}) /\ Len(<<>>) = 0
  BY EmptySeq
<1>2. 1 .. Len(<<>>) = {}
  BY <1>1
<1> QED
  BY <1>1, <1>2, SeqFromSet DEF Elements

LEMMA ConcatShape ==
    ASSUME NEW s, NEW t, IsSeq(s), IsSeq(t)
    PROVE  /\ IsSeq(s \o t) /\ Len(s \o t) = Len(s) + Len(t)
           /\ \A i \in 1 .. Len(s \o t) :
                \/ i \in 1 .. Len(s) /\ (s \o t)[i] = s[i]
                \/ \E j \in 1 .. Len(t) : i = Len(s) + j /\ (s \o t)[i] = t[j]
<1> DEFINE S == Elements(s) \cup Elements(t)
<1>1. s \in Seq(S) /\ t \in Seq(S)
  BY SeqShape, SeqMonotonic
<1> HIDE DEF S
<1>2. /\ s \o t \in Seq(S) /\ Len(s \o t) = Len(s) + Len(t)
      /\ \A i \in 1 .. Len(s) + Len(t) : (s \o t)[i] = IF i <= Len(s) THEN s[i] ELSE t[i - Len(s)]
  BY <1>1, ConcatProperties
<1>3. Len(s) \in Nat /\ Len(t) \in Nat
  BY DEF IsSeq
<1>4. ASSUME NEW i \in 1 .. Len(s \o t)
      PROVE  \/ i \in 1 .. Len(s) /\ (s \o t)[i] = s[i]
             \/ \E j \in 1 .. Len(t) : i = Len(s) + j /\ (s \o t)[i] = t[j]
  <2>1. CASE i <= Len(s)
    BY <1>2, <1>3, <2>1
  <2>2. CASE i > Len(s)
    <3>1. i - Len(s) \in 1 .. Len(t) /\ i = Len(s) + (i - Len(s)) /\ (s \o t)[i] = t[i - Len(s)]
      BY <1>2, <1>3, <2>2
    <3> QED
      BY <3>1
  <2> QED
    BY <1>2, <1>3, <2>1, <2>2
<1> QED
  BY <1>2, <1>4, SeqFromSet

LEMMA AppendShape ==
    ASSUME NEW s, NEW x, IsSeq(s)
    PROVE  /\ IsSeq(Append(s, x)) /\ Len(Append(s, x)) = Len(s) + 1
           /\ \A i \in 1 .. Len(s) + 1 :
                Append(s, x)[i] = IF i = Len(s) + 1 THEN x ELSE s[i]
<1> DEFINE S == Elements(s) \cup {x}
<1>1. s \in Seq(S) /\ x \in S
  BY SeqShape, SeqMonotonic
<1> HIDE DEF S
<1>2. /\ Append(s, x) \in Seq(S) /\ Len(Append(s, x)) = Len(s) + 1
      /\ \A i \in 1 .. Len(s) : Append(s, x)[i] = s[i]
      /\ Append(s, x)[Len(s) + 1] = x
  BY <1>1, AppendProperties
<1>3. Len(s) \in Nat
  BY DEF IsSeq
<1>4. IsSeq(Append(s, x))
  BY <1>2, SeqFromSet
<1> HIDE DEF IsSeq
<1>5. \A i \in 1 .. Len(s) + 1 : i = Len(s) + 1 \/ i \in 1 .. Len(s)
  BY <1>3
<1>6. Len(s) + 1 \notin 1 .. Len(s)
  BY <1>3
<1>7. ASSUME NEW i \in 1 .. Len(s) + 1
      PROVE  Append(s, x)[i] = IF i = Len(s) + 1 THEN x ELSE s[i]
  BY <1>2, <1>5, <1>6
<1> QED
  BY <1>2, <1>4, <1>7

LEMMA MadeShape ==
    ASSUME NEW n \in Nat, NEW s, DOMAIN s = 1 .. n, s = [i \in 1 .. n |-> s[i]]
    PROVE  IsSeq(s) /\ Len(s) = n
<1>1. s \in [1 .. n -> {s[i] : i \in 1 .. n}]
  OBVIOUS
<1>2. s \in Seq({s[i] : i \in 1 .. n})
  BY <1>1, SeqDef
<1>3. Len(s) = n
  BY <1>2, LenProperties
<1> QED
  BY <1>3 DEF IsSeq

LEMMA Least ==
    ASSUME NEW S, S \subseteq Nat, S # {}
    PROVE  \E n \in S : \A m \in S : n <= m
<1>1. PICK n \in S : \A m \in S : <<m, n>> \notin OpToRel(<, Nat)
  BY NatLessThanWellFounded, WFMin
<1>2. \A m \in S : ~ (m < n)
  BY <1>1 DEF OpToRel
<1> QED
  BY <1>2

Increasing(s) == \A i, j \in DOMAIN s : i < j => s[i] < s[j]

Listed(S) == \E s \in [1 .. Cardinality(S) -> S] : Increasing(s)

LEMMA AllListed ==
    ASSUME NEW b \in Nat, NEW S, S \subseteq 1 .. b
    PROVE  Listed(S)
<1> DEFINE Bad == {n \in Nat : \E T \in SUBSET (1 .. n) : ~ Listed(T)}
<1>1. SUFFICES Bad = {}
  BY DEF Bad
<1>2. SUFFICES ASSUME Bad # {} PROVE FALSE
  OBVIOUS
<1>3. PICK n \in Bad : \A m \in Bad : n <= m
  BY <1>2, Least
<1>4. PICK T \in SUBSET (1 .. n) : ~ Listed(T)
  BY <1>3
<1>5. n \in Nat
  BY <1>3
<1>6. CASE n \notin T
  <2>1. CASE n = 0
    <3>1. T = {}
      BY <2>1
    <3>2. Cardinality(T) = 0
      BY <3>1, FS_EmptySet
    <3>3. [i \in {} |-> 0] \in [1 .. Cardinality(T) -> T] /\ Increasing([i \in {} |-> 0])
      BY <3>1, <3>2 DEF Increasing
    <3> QED
      BY <1>4, <3>3 DEF Listed
  <2>2. CASE n # 0
    <3>1. T \subseteq 1 .. n - 1 /\ n - 1 \in Nat
      BY <1>4, <1>5, <1>6, <2>2
    <3>2. n - 1 \in Bad
      BY <1>4, <3>1
    <3> QED
      BY <1>3, <1>5, <3>2
  <2> QED
    BY <2>1, <2>2
<1>7. CASE n \in T
  <2> DEFINE R == T \ {n}
  <2>1. n - 1 \in Nat /\ R \subseteq 1 .. n - 1
    BY <1>4, <1>5, <1>7
  <2>2. Listed(R)
    <3>1. n - 1 \notin Bad
      BY <1>3, <1>5
    <3> QED
      BY <2>1, <3>1
  <2>3. IsFiniteSet(T)
    <3>1. IsFiniteSet(1 .. n) /\ T \subseteq 1 .. n
      BY <1>4, <1>5, FS_Interval
    <3> QED
      BY <3>1, FS_Subset
  <2>4. Cardinality(R) = Cardinality(T) - 1 /\ Cardinality(R) \in Nat /\ Cardinality(T) \in Nat
    BY <2>3, <1>7, FS_RemoveElement, FS_CardinalityType
  <2>5. PICK r \in [1 .. Cardinality(R) -> R] : Increasing(r)
    BY <2>2 DEF Listed
  <2> DEFINE c == Cardinality(T)
             s == [i \in 1 .. c |-> IF i = c THEN n ELSE r[i]]
  <2>6. s \in [1 .. c -> T]
    <3> SUFFICES ASSUME NEW i \in 1 .. c PROVE s[i] \in T
      OBVIOUS
    <3>1. i = c \/ i \in 1 .. Cardinality(R)
      BY <2>4
    <3>2. i \in 1 .. Cardinality(R) => r[i] \in T
      BY <2>5
    <3> QED
      BY <1>7, <3>1, <3>2
  <2>7. Increasing(s)
    <3> SUFFICES ASSUME NEW i \in 1 .. c, NEW j \in 1 .. c, i < j PROVE s[i] < s[j]
      BY DEF Increasing
    <3>1. i \in 1 .. Cardinality(R) /\ i # c
      BY <2>4
    <3>2. s[i] = r[i] /\ r[i] \in 1 .. n - 1
      BY <2>1, <2>5, <3>1
    <3>3. CASE j = c
      BY <1>5, <2>1, <3>2, <3>3
    <3>4. CASE j # c
      <4>1. j \in 1 .. Cardinality(R) /\ s[j] = r[j]
        BY <2>4, <3>4
      <4> QED
        BY <2>5, <3>1, <3>2, <4>1 DEF Increasing
    <3> QED
      BY <3>3, <3>4
  <2> QED
    BY <1>4, <2>6, <2>7 DEF Listed
<1> QED
  BY <1>6, <1>7

LEMMA AscendingIs ==
    ASSUME NEW b \in Nat, NEW S, S \subseteq 1 .. b
    PROVE  /\ IsSeq(Ascending(S)) /\ \A i \in 1 .. Len(Ascending(S)) : Ascending(S)[i] \in S
           /\ \A i, j \in 1 .. Len(Ascending(S)) : Ascending(S)[i] = Ascending(S)[j] => i = j
<1> DEFINE s == Ascending(S)
<1>1. s \in [1 .. Cardinality(S) -> S] /\ \A i, j \in DOMAIN s : i < j => s[i] < s[j]
  BY AllListed DEF Listed, Increasing, Ascending
<1>2. Cardinality(S) \in Nat
  <2>1. IsFiniteSet(1 .. b)
    BY FS_Interval
  <2>2. IsFiniteSet(S)
    BY <2>1, FS_Subset
  <2> QED
    BY <2>2, FS_CardinalityType
<1> HIDE DEF s
<1>3. IsSeq(s) /\ Len(s) = Cardinality(S)
  BY <1>1, <1>2, MadeShape
<1>4. \A i, j \in 1 .. Cardinality(S) : s[i] = s[j] => i = j
  <2> TAKE i, j \in 1 .. Cardinality(S)
  <2>1. s[i] \in 1 .. b /\ s[j] \in 1 .. b
    BY <1>1
  <2>2. DOMAIN s = 1 .. Cardinality(S)
    BY <1>1
  <2>3. i < j => s[i] < s[j]
    BY <1>1, <2>2
  <2>4. j < i => s[j] < s[i]
    BY <1>1, <2>2
  <2> QED
    BY <1>2, <2>1, <2>3, <2>4
<1> QED
  BY <1>1, <1>3, <1>4 DEF s

-----------------------------------------------------------------------------
(* What the pages show *)

Stamped(post, stamp) ==
    post \in 1 .. lastPost /\ (post \in DOMAIN posts => posts[post].stamp = stamp)

Saved(post, id) ==
    /\ id \in 1 .. lastComment
    /\ post \in DOMAIN posts => \E c \in comments : c.id = id /\ c.post = post

Distinct(list) == \A j, k \in 1 .. Len(list) : list[j] = list[k] => j = k

ShownOK(x) ==
    /\ Stamped(x.post, x.stamp)
    /\ IsSeq(x.list) /\ Distinct(x.list)
    /\ \A id \in Elements(x.list) : Saved(x.post, id)

(* The call in a slot, if there is one. *)
InSlot(p, s) == {calls[p][s]} \ {None}

CardFields == {"key", "post", "stamp", "count", "list", "likes", "liked"}

CardsOK(p) ==
    /\ IsSeq(cards[p])
    /\ \A card \in Elements(cards[p]) :
         DOMAIN card = CardFields /\ card.key \in 1 .. loads[p] /\ ShownOK(card)

ReadOK(call) ==
    /\ IsSeq(call.rows) /\ \A row \in Elements(call.rows) : Stamped(row.post, row.stamp)
    /\ IsSeq(call.view) /\ \A row \in Elements(call.view) : ShownOK(row)

(* The key of a load is its own: no card and no other call has it yet.      *)
LoadsOK(p) ==
    \A s \in LoadSlots : \A call \in InSlot(p, s) :
        /\ call.kind = "load" /\ call.key \in 1 .. loads[p] /\ ReadOK(call)
        /\ \A card \in Elements(cards[p]) : card.key # call.key
        /\ \A t \in LoadSlots : \A other \in InSlot(p, t) : t # s => other.key # call.key

Accepted(call) == call.kind = "comment" /\ call.stage = "replied" /\ call.status \in {200, 201}

(* A like or comment belongs to a card of a load that is over; a comment    *)
(* that was accepted is not on its card yet.                                *)
ActOK(p) ==
    \A call \in InSlot(p, "act") :
        /\ call.kind \in {"like", "comment", "publish"}
        /\ call.kind # "publish" =>
             /\ Stamped(call.post, call.stamp) /\ call.key \in 1 .. loads[p]
             /\ \A s \in LoadSlots : \A other \in InSlot(p, s) : other.key # call.key
        /\ Accepted(call) =>
             /\ Saved(call.post, call.comment)
             /\ \A card \in Elements(cards[p]) :
                  SameCard(card, call) => call.comment \notin Elements(card.list)

PageOK(p) == CardsOK(p) /\ LoadsOK(p) /\ ActOK(p)

PageInv ==
    /\ DOMAIN cards = Pages
    /\ sent \in Nat /\ loads \in [Pages -> Nat] /\ \A p \in Pages : loads[p] <= sent

FeedInv == PageInv /\ CommentsReachTheirPost /\ \A p \in Pages : PageOK(p)

(* The steps that write the tables. *)
LEMMA TableWriters ==
    ASSUME [Next]_vars
    PROVE  \/ UNCHANGED <<posts, comments, lastPost, lastComment>>
           \/ /\ posts' = [id \in {} |-> None] /\ comments' = {}
              /\ lastPost' = lastPost /\ lastComment' = lastComment
           \/ \E image : Insert(image)
           \/ \E p \in Pages, s \in Slots : CreateComment(p, s)
<1>1. ASSUME NEW p \in Pages, Browse(p) PROVE UNCHANGED store
  BY <1>1 DEF Browse, Login, BeginLoad, EndLoad, BeginAction, BeginPublish, EndAction, Send, Receive
<1>2. ASSUME NEW p \in Pages, NEW s \in Slots,
             \/ Unauthorised(p, s) \/ ReadRows(p, s) \/ ReadPost(p, s) \/ ListPosts(p, s)
             \/ ToggleLike(p, s) \/ StoreImage(p, s) \/ FailPublish(p, s)
      PROVE  UNCHANGED <<posts, comments, lastPost, lastComment>>
  BY <1>2 DEF Unauthorised, ReadRows, ReadPost, ListPosts, ToggleLike, StoreImage, FailPublish, store
<1>3. ASSUME NEW p \in Pages, NEW s \in Slots, CreatePost(p, s) PROVE \E image : Insert(image)
  BY <1>3 DEF CreatePost
<1>4. ASSUME RemoveMedia \/ Restart \/ \E p \in Pages : EndSession(p) PROVE UNCHANGED store
  BY <1>4 DEF RemoveMedia, Restart, EndSession
<1>5. ASSUME Reset
      PROVE  /\ posts' = [id \in {} |-> None] /\ comments' = {}
             /\ lastPost' = lastPost /\ lastComment' = lastComment
  BY <1>5 DEF Reset
<1>6. CASE UNCHANGED store
  BY <1>6 DEF store
<1> QED
  BY <1>1, <1>2, <1>3, <1>4, <1>5, <1>6 DEF Next, Serve, vars, server

(* What was rendered stays true: a number names one post for ever, and its  *)
(* comments go with it.                                                     *)
LEMMA StampedStays ==
    ASSUME TableInv, [Next]_vars, NEW post, NEW stamp, Stamped(post, stamp)
    PROVE  Stamped(post, stamp)'
<1>1. CASE UNCHANGED <<posts, lastPost>>
  BY <1>1 DEF Stamped
<1>2. CASE posts' = [id \in {} |-> None] /\ lastPost' = lastPost
  BY <1>2 DEF Stamped
<1>3. ASSUME NEW image, Insert(image) PROVE Stamped(post, stamp)'
  <2>1. post \in 1 .. lastPost /\ lastPost \in Nat
    BY DEF Stamped, TableInv
  <2>2. post # lastPost + 1 /\ post \in 1 .. lastPost + 1
    BY <2>1
  <2> DEFINE row == [stamp |-> published + 1, image |-> image, count |-> 0]
  <2>3. /\ lastPost' = lastPost + 1
        /\ posts' = [id \in DOMAIN posts \cup {lastPost + 1} |->
                       IF id = lastPost + 1 THEN row ELSE posts[id]]
    BY <1>3 DEF Insert, NextPost
  <2> HIDE DEF row
  <2> QED
    BY <2>2, <2>3 DEF Stamped
<1>4. ASSUME NEW p \in Pages, NEW s \in Slots, CreateComment(p, s) PROVE Stamped(post, stamp)'
  <2>1. lastPost' = lastPost
    BY <1>4 DEF CreateComment
  <2>2. posts' = posts \/ posts' = [posts EXCEPT ![calls[p][s].post].count = @ + 1]
    BY <1>4 DEF CreateComment, Increment
  <2>3. DOMAIN posts' = DOMAIN posts /\ \A id \in DOMAIN posts : posts'[id].stamp = posts[id].stamp
    BY <2>2 DEF TableInv
  <2> QED
    BY <2>1, <2>3 DEF Stamped
<1> QED
  BY <1>1, <1>2, <1>3, <1>4, TableWriters

LEMMA SavedStays ==
    ASSUME TableInv, [Next]_vars, NEW post, NEW id, post \in 1 .. lastPost, Saved(post, id)
    PROVE  Saved(post, id)'
<1>1. CASE comments \subseteq comments' /\ lastComment' \in Nat /\ lastComment <= lastComment'
           /\ (post \in DOMAIN posts' => post \in DOMAIN posts)
  BY <1>1 DEF Saved, TableInv
<1>2. CASE posts' = [n \in {} |-> None] /\ lastComment' = lastComment
  BY <1>2 DEF Saved
<1>3. lastComment \in Nat /\ lastComment <= lastComment /\ lastPost \in Nat
  BY DEF TableInv
<1>4. CASE UNCHANGED <<posts, comments, lastComment>>
  BY <1>1, <1>3, <1>4
<1>5. ASSUME NEW image, Insert(image) PROVE Saved(post, id)'
  <2>1. post # lastPost + 1
    BY <1>3
  <2>2. DOMAIN posts' = DOMAIN posts \cup {lastPost + 1} /\ UNCHANGED <<comments, lastComment>>
    BY <1>5 DEF Insert, NextPost
  <2> QED
    BY <1>1, <1>3, <2>1, <2>2
<1>6. ASSUME NEW p \in Pages, NEW s \in Slots, CreateComment(p, s) PROVE Saved(post, id)'
  <2>1. DOMAIN posts' = DOMAIN posts
    BY <1>6 DEF CreateComment, Increment
  <2>2. /\ comments \subseteq comments'
        /\ lastComment' = lastComment \/ lastComment' = lastComment + 1
    BY <1>6 DEF CreateComment
  <2> QED
    BY <1>1, <1>3, <2>1, <2>2
<1> QED
  BY <1>2, <1>4, <1>5, <1>6, TableWriters

LEMMA ShownStays ==
    ASSUME TableInv, [Next]_vars, NEW x, ShownOK(x)
    PROVE  ShownOK(x)'
<1>1. Stamped(x.post, x.stamp)' /\ x.post \in 1 .. lastPost
  BY StampedStays DEF ShownOK, Stamped
<1>2. \A id \in Elements(x.list) : Saved(x.post, id)'
  BY <1>1, SavedStays DEF ShownOK
<1> QED
  BY <1>1, <1>2 DEF ShownOK, IsSeq, Distinct, Elements

LEMMA ReadStays ==
    ASSUME TableInv, [Next]_vars, NEW call, ReadOK(call)
    PROVE  ReadOK(call)'
<1>1. \A row \in Elements(call.rows) : Stamped(row.post, row.stamp)'
  BY StampedStays DEF ReadOK
<1>2. \A row \in Elements(call.view) : ShownOK(row)'
  BY ShownStays DEF ReadOK
<1> QED
  BY <1>1, <1>2 DEF ReadOK, IsSeq, Elements

(* How the server may change a call: what the page asked for stays, what is *)
(* read is true, and an accepted comment is a new one.                      *)
Follows(old, call) ==
    /\ call.kind = old.kind
    /\ call.kind # "publish" =>
         call.key = old.key /\ call.post = old.post /\ call.stamp = old.stamp
    /\ call.kind = "load" /\ ReadOK(old) => ReadOK(call)'
    /\ Accepted(call) =>
         \/ Accepted(old) /\ call.comment = old.comment
         \/ call.comment \notin 1 .. lastComment /\ Saved(call.post, call.comment)'

LEMMA FollowSame ==
    ASSUME TableInv, [Next]_vars, NEW call
    PROVE  Follows(call, call)
  BY ReadStays DEF Follows

LEMMA FollowAs ==
    ASSUME TableInv, [Next]_vars, NEW old, NEW call,
           call.kind = old.kind, call.key = old.key, call.post = old.post, call.stamp = old.stamp,
           call.rows = old.rows, call.view = old.view, ~ Accepted(call)
    PROVE  Follows(old, call)
<1>1. ReadOK(old) => ReadOK(old)'
  BY ReadStays
<1>2. ReadOK(old)' => ReadOK(call)'
  BY DEF ReadOK
<1> QED
  BY <1>1, <1>2 DEF Follows

(* A handler changes its own call only. *)
LEMMA OthersFollow ==
    ASSUME TableInv, CallsShape, [Next]_vars, NEW p \in Pages, NEW s \in Slots,
           \/ Unauthorised(p, s) \/ ReadRows(p, s) \/ ReadPost(p, s) \/ ListPosts(p, s)
           \/ ToggleLike(p, s) \/ CreateComment(p, s)
           \/ StoreImage(p, s) \/ CreatePost(p, s) \/ FailPublish(p, s),
           NEW mine, NEW reply, mine = calls[p][s], reply = calls'[p][s], Follows(mine, reply)
    PROVE  \A q \in Pages, t \in Slots : \A call \in InSlot(q, t)' :
               \E old \in InSlot(q, t) : Follows(old, call)
<1> SUFFICES ASSUME NEW q \in Pages, NEW t \in Slots, NEW call \in InSlot(q, t)'
             PROVE  \E old \in InSlot(q, t) : Follows(old, call)
  OBVIOUS
<1>1. CASE q = p /\ t = s
  <2>1. calls[p][s] # None
    BY DEF Unauthorised, ReadRows, ReadPost, ListPosts, ToggleLike, CreateComment, StoreImage,
           CreatePost, FailPublish, Pending
  <2> QED
    BY <1>1, <2>1 DEF InSlot
<1>2. CASE ~ (q = p /\ t = s)
  <2>1. calls'[q][t] = calls[q][t]
    BY <1>2, OwnCallOnly
  <2>2. call \in InSlot(q, t)
    BY <2>1 DEF InSlot
  <2> QED
    BY <2>2, FollowSame
<1> QED
  BY <1>1, <1>2

LEMMA ReplyIs ==
    ASSUME CallsShape, NEW p \in Pages, NEW s \in Slots, NEW call, DOMAIN call = Fields,
           NEW status, Reply(p, s, call, status)
    PROVE  /\ calls'[p][s].stage = "replied" /\ calls'[p][s].status = status
           /\ calls'[p][s].kind = call.kind /\ calls'[p][s].key = call.key
           /\ calls'[p][s].post = call.post /\ calls'[p][s].stamp = call.stamp
           /\ calls'[p][s].rows = call.rows /\ calls'[p][s].view = call.view
           /\ calls'[p][s].comment = call.comment
<1>1. calls'[p][s] = [call EXCEPT !.stage = "replied", !.status = status]
  BY DEF Reply, CallsShape
<1> QED
  BY <1>1 DEF Fields, Call

(* The handlers that answer with an error, or read and write nothing a card *)
(* shows.                                                                   *)
LEMMA PlainFollows ==
    ASSUME TableInv, CallsShape, [Next]_vars, NEW p \in Pages, NEW s \in Slots,
           \/ Unauthorised(p, s) \/ ToggleLike(p, s)
           \/ StoreImage(p, s) \/ CreatePost(p, s) \/ FailPublish(p, s),
           NEW old, NEW call, old = calls[p][s], call = calls'[p][s]
    PROVE  Follows(old, call)
<1>1. old # None /\ DOMAIN old = Fields
  BY DEF CallsShape, CallOK, Unauthorised, ToggleLike, StoreImage, CreatePost, FailPublish, Pending
<1>2. CASE Unauthorised(p, s)
  <2>1. Reply(p, s, old, 401)
    BY <1>2 DEF Unauthorised
  <2> QED
    BY <1>1, <2>1, ReplyIs, FollowAs DEF Accepted
<1>3. CASE ToggleLike(p, s)
  <2>1. PICK new, status : /\ Reply(p, s, new, status) /\ DOMAIN new = Fields
                           /\ new.kind = old.kind /\ new.key = old.key /\ new.post = old.post
                           /\ new.stamp = old.stamp /\ new.rows = old.rows /\ new.view = old.view
    <3>1. CASE old.post \in DOMAIN posts
      <4>1. PICK liked, count : Reply(p, s, [old EXCEPT !.liked = liked, !.count = count], 200)
        BY <1>3, <3>1 DEF ToggleLike
      <4> DEFINE new == [old EXCEPT !.liked = liked, !.count = count]
      <4>2. /\ DOMAIN new = Fields
            /\ new.kind = old.kind /\ new.key = old.key /\ new.post = old.post
            /\ new.stamp = old.stamp /\ new.rows = old.rows /\ new.view = old.view
        BY <1>1 DEF Fields, Call
      <4>3. Reply(p, s, new, 200)
        BY <4>1
      <4> HIDE DEF new
      <4> QED
        BY <4>2, <4>3
    <3>2. CASE old.post \notin DOMAIN posts
      BY <1>1, <1>3, <3>2 DEF ToggleLike
    <3> QED
      BY <3>1, <3>2
  <2>2. old.kind = "like"
    BY <1>3 DEF ToggleLike, Pending
  <2> QED
    BY <2>1, <2>2, ReplyIs, FollowAs DEF Accepted
<1>4. CASE StoreImage(p, s) \/ CreatePost(p, s) \/ FailPublish(p, s)
  <2>1. old.kind = "publish"
    BY <1>4 DEF StoreImage, CreatePost, FailPublish, Pending
  <2>2. call.kind = "publish"
    <3>1. \/ \E status : Reply(p, s, old, status)
          \/ calls' = [calls EXCEPT ![p][s] = Stored(issued + 1)]
      BY <1>4 DEF StoreImage, CreatePost, FailPublish
    <3>2. CASE \E status : Reply(p, s, old, status)
      BY <1>1, <2>1, <3>2, ReplyIs
    <3>3. CASE calls' = [calls EXCEPT ![p][s] = Stored(issued + 1)]
      <4>1. call = Stored(issued + 1)
        BY <3>3 DEF CallsShape
      <4> QED
        BY <4>1 DEF Stored, Call
    <3> QED
      BY <3>1, <3>2, <3>3
  <2> QED
    BY <2>1, <2>2 DEF Follows, Accepted
<1> QED
  BY <1>2, <1>3, <1>4

(* A comment is accepted with a number of its own.                          *)
LEMMA CommentFollows ==
    ASSUME TableInv, CallsShape, [Next]_vars, NEW p \in Pages, NEW s \in Slots,
           CreateComment(p, s), NEW old, NEW call, old = calls[p][s], call = calls'[p][s]
    PROVE  Follows(old, call)
<1>1. old # None /\ DOMAIN old = Fields /\ old.kind = "comment"
  BY DEF CallsShape, CallOK, CreateComment, Pending
<1>2. CASE old.post \notin DOMAIN posts
  <2>1. Reply(p, s, old, 404)
    BY <1>2 DEF CreateComment
  <2> QED
    BY <1>1, <2>1, ReplyIs, FollowAs DEF Accepted
<1>3. CASE old.post \in DOMAIN posts
  <2>1. PICK id : id = lastComment + 1
    OBVIOUS
  <2>2. PICK count : Reply(p, s, [old EXCEPT !.comment = id, !.count = count], 201)
    BY <1>3, <2>1 DEF CreateComment
  <2> DEFINE new == [old EXCEPT !.comment = id, !.count = count]
  <2>3. /\ DOMAIN new = Fields /\ Reply(p, s, new, 201)
        /\ new.kind = old.kind /\ new.key = old.key /\ new.post = old.post
        /\ new.stamp = old.stamp /\ new.rows = old.rows /\ new.view = old.view
        /\ new.comment = id
    BY <1>1, <2>2 DEF Fields, Call
  <2> HIDE DEF new
  <2>4. /\ call.kind = old.kind /\ call.key = old.key /\ call.post = old.post
        /\ call.stamp = old.stamp /\ call.comment = id
    BY <2>3, ReplyIs
  <2>5. id \notin 1 .. lastComment
    BY <2>1 DEF TableInv
  <2>6. Saved(old.post, id)'
    <3>1. lastComment' = id /\ id \in 1 .. id
      BY <1>3, <2>1 DEF CreateComment, TableInv
    <3> DEFINE c == [id |-> id, post |-> old.post, stamp |-> old.stamp]
    <3>2. c \in comments' /\ c.id = id /\ c.post = old.post
      BY <1>3, <2>1 DEF CreateComment
    <3> HIDE DEF c
    <3>3. \E x \in comments' : x.id = id /\ x.post = old.post
      BY <3>2
    <3> QED
      BY <3>1, <3>3 DEF Saved
  <2>7. Saved(call.post, call.comment)'
    BY <2>4, <2>6
  <2> QED
    BY <1>1, <2>4, <2>5, <2>7 DEF Follows
<1> QED
  BY <1>2, <1>3

LEMMA NewestFirstIs ==
    ASSUME TableInv
    PROVE  IsSeq(NewestFirst) /\ Elements(NewestFirst) \subseteq DOMAIN posts
<1> DEFINE s == Ascending(DOMAIN posts)
<1>1. IsSeq(s) /\ \A i \in 1 .. Len(s) : s[i] \in DOMAIN posts
  BY AscendingIs DEF TableInv
<1> HIDE DEF s
<1>2. Len(s) \in Nat
  BY <1>1 DEF IsSeq
<1> DEFINE r == [i \in 1 .. Len(s) |-> s[(Len(s) - i) + 1]]
<1>3. NewestFirst = r
  BY DEF NewestFirst, Reverse, s
<1>4. DOMAIN r = 1 .. Len(s) /\ r = [i \in 1 .. Len(s) |-> r[i]]
  OBVIOUS
<1>5. IsSeq(r) /\ Len(r) = Len(s)
  BY <1>2, <1>4, MadeShape
<1>6. \A i \in 1 .. Len(s) : (Len(s) - i) + 1 \in 1 .. Len(s)
  BY <1>2
<1>7. \A i \in 1 .. Len(s) : r[i] \in DOMAIN posts
  BY <1>1, <1>6
<1> QED
  BY <1>3, <1>5, <1>7 DEF Elements

LEMMA CommentsOfIs ==
    ASSUME TableInv, NEW id
    PROVE  /\ IsSeq(CommentsOf(id)) /\ Distinct(CommentsOf(id))
           /\ \A c \in Elements(CommentsOf(id)) :
                c \in 1 .. lastComment /\ \E x \in comments : x.id = c /\ x.post = id
<1> DEFINE S == {c.id : c \in {x \in comments : x.post = id}}
<1>1. S \subseteq 1 .. lastComment /\ lastComment \in Nat
  BY DEF TableInv
<1>2. \A c \in S : \E x \in comments : x.id = c /\ x.post = id
  OBVIOUS
<1>3. CommentsOf(id) = Ascending(S)
  BY DEF CommentsOf
<1> HIDE DEF S
<1> DEFINE s == Ascending(S)
<1>4. /\ IsSeq(s) /\ \A i \in 1 .. Len(s) : s[i] \in S
      /\ \A i, j \in 1 .. Len(s) : s[i] = s[j] => i = j
  BY <1>1, AscendingIs
<1> HIDE DEF s
<1>5. \A c \in Elements(s) : c \in S
  BY <1>4 DEF Elements
<1>6. CommentsOf(id) = s
  BY <1>3 DEF s
<1> QED
  BY <1>1, <1>2, <1>4, <1>5, <1>6 DEF Distinct

(* What a load reads is what the tables hold at that moment. *)
LEMMA RowsFollow ==
    ASSUME TableInv, CallsShape, [Next]_vars, NEW p \in Pages, NEW s \in Slots, ReadRows(p, s),
           NEW old, NEW call, old = calls[p][s], call = calls'[p][s]
    PROVE  Follows(old, call)
<1> DEFINE rows == [i \in 1 .. Len(NewestFirst) |-> Row(NewestFirst[i])]
<1>1. old # None /\ DOMAIN old = Fields
  BY DEF CallsShape, CallOK, ReadRows, Pending
<1>2. PICK list : list = rows
  OBVIOUS
<1>3. call = [old EXCEPT !.stage = "reading", !.rows = list]
  BY <1>2 DEF ReadRows, CallsShape
<1>4. /\ call.kind = old.kind /\ call.key = old.key /\ call.post = old.post
      /\ call.stamp = old.stamp /\ call.stage = "reading" /\ call.view = old.view
      /\ call.rows = list
  BY <1>1, <1>3 DEF Fields, Call
<1>5. IsSeq(NewestFirst) /\ Elements(NewestFirst) \subseteq DOMAIN posts
  BY NewestFirstIs
<1>6. IsSeq(list) /\ Len(list) = Len(NewestFirst)
  <2>1. Len(NewestFirst) \in Nat
    BY <1>5 DEF IsSeq
  <2>2. DOMAIN list = 1 .. Len(NewestFirst) /\ list = [i \in 1 .. Len(NewestFirst) |-> list[i]]
    BY <1>2
  <2> QED
    BY <2>1, <2>2, MadeShape
<1>7. \A row \in Elements(list) : Stamped(row.post, row.stamp)
  <2> SUFFICES ASSUME NEW i \in 1 .. Len(list) PROVE Stamped(list[i].post, list[i].stamp)
    BY DEF Elements
  <2> DEFINE id == NewestFirst[i]
  <2>1. id \in DOMAIN posts /\ id \in 1 .. lastPost
    BY <1>5, <1>6 DEF Elements, TableInv
  <2>2. list[i].post = id /\ list[i].stamp = posts[id].stamp
    BY <1>2, <1>6 DEF Row
  <2> HIDE DEF id
  <2> QED
    BY <2>1, <2>2 DEF Stamped
<1>8. ReadOK(old) => ReadOK(call)
  BY <1>4, <1>6, <1>7 DEF ReadOK
<1>9. ReadOK(call) => ReadOK(call)'
  BY ReadStays
<1> QED
  BY <1>4, <1>8, <1>9 DEF Follows, Accepted

LEMMA PostFollows ==
    ASSUME TableInv, CallsShape, [Next]_vars, NEW p \in Pages, NEW s \in Slots, ReadPost(p, s),
           NEW old, NEW call, old = calls[p][s], call = calls'[p][s]
    PROVE  Follows(old, call)
<1>1. old # None /\ DOMAIN old = Fields /\ old.stage = "reading" /\ Len(old.view) < Len(old.rows)
  BY DEF CallsShape, CallOK, ReadPost, Pending
<1>2. PICK row : row = View(p, old.rows[Len(old.view) + 1])
  OBVIOUS
<1>3. call = [old EXCEPT !.view = Append(@, row)]
  BY <1>2 DEF ReadPost, CallsShape
<1>4. /\ call.kind = old.kind /\ call.key = old.key /\ call.post = old.post
      /\ call.stamp = old.stamp /\ call.stage = "reading" /\ call.rows = old.rows
      /\ call.view = Append(old.view, row)
  BY <1>1, <1>3 DEF Fields, Call
<1>5. ASSUME ReadOK(old) PROVE ReadOK(call)
  <2>1. IsSeq(old.rows) /\ IsSeq(old.view)
    BY <1>5 DEF ReadOK
  <2>2. Len(old.view) + 1 \in 1 .. Len(old.rows)
    BY <1>1, <2>1 DEF IsSeq
  <2> DEFINE read == old.rows[Len(old.view) + 1]
  <2>3. Stamped(read.post, read.stamp)
    BY <1>5, <2>2 DEF ReadOK, Elements
  <2>4. row.post = read.post /\ row.stamp = read.stamp /\ row.list = CommentsOf(read.post)
    BY <1>2 DEF View
  <2> HIDE DEF read
  <2>5. ShownOK(row)
    BY <2>3, <2>4, CommentsOfIs DEF ShownOK, Saved
  <2>6. /\ IsSeq(call.view) /\ Len(call.view) = Len(old.view) + 1
        /\ \A i \in 1 .. Len(old.view) + 1 :
             call.view[i] = IF i = Len(old.view) + 1 THEN row ELSE old.view[i]
    BY <1>4, <2>1, AppendShape
  <2>7. ASSUME NEW i \in 1 .. Len(call.view) PROVE ShownOK(call.view[i])
    <3>1. CASE i = Len(old.view) + 1
      BY <2>5, <2>6, <3>1
    <3>2. CASE i # Len(old.view) + 1
      <4>1. i \in 1 .. Len(old.view)
        BY <2>1, <2>6, <3>2 DEF IsSeq
      <4>2. call.view[i] = old.view[i] /\ old.view[i] \in Elements(old.view)
        BY <2>6, <3>2, <4>1 DEF Elements
      <4> QED
        BY <1>5, <4>2 DEF ReadOK
    <3> QED
      BY <3>1, <3>2
  <2>8. \A x \in Elements(call.view) : ShownOK(x)
    BY <2>7 DEF Elements
  <2> QED
    BY <1>4, <1>5, <2>6, <2>8 DEF ReadOK
<1>6. ReadOK(call) => ReadOK(call)'
  BY ReadStays
<1> QED
  BY <1>4, <1>5, <1>6 DEF Follows, Accepted

LEMMA ListFollows ==
    ASSUME TableInv, CallsShape, [Next]_vars, NEW p \in Pages, NEW s \in Slots, ListPosts(p, s),
           NEW old, NEW call, old = calls[p][s], call = calls'[p][s]
    PROVE  Follows(old, call)
<1>1. old # None /\ DOMAIN old = Fields /\ old.kind = "load"
  BY DEF CallsShape, CallOK, ListPosts, Pending
<1>2. PICK view : /\ view = old.view \/ view = <<>>
                  /\ Reply(p, s, [old EXCEPT !.rows = <<>>, !.view = view], 200)
  BY <1>1 DEF ListPosts, Fields, Call
<1> DEFINE new == [old EXCEPT !.rows = <<>>, !.view = view]
<1>3. /\ DOMAIN new = Fields /\ Reply(p, s, new, 200)
      /\ new.kind = old.kind /\ new.key = old.key /\ new.post = old.post
      /\ new.stamp = old.stamp /\ new.rows = <<>> /\ new.view = view
  BY <1>1, <1>2 DEF Fields, Call
<1> HIDE DEF new
<1>4. /\ call.kind = old.kind /\ call.key = old.key /\ call.post = old.post
      /\ call.stamp = old.stamp /\ call.rows = <<>> /\ call.view = view
  BY <1>3, ReplyIs
<1>5. IsSeq(<<>>) /\ Elements(<<>>) = {}
  BY NoCards
<1>6. ReadOK(old) => ReadOK(call)
  BY <1>2, <1>4, <1>5 DEF ReadOK
<1>7. ReadOK(call) => ReadOK(call)'
  BY ReadStays
<1> QED
  BY <1>1, <1>4, <1>6, <1>7 DEF Follows, Accepted

(* Every call the server leaves in a slot was there before. *)
LEMMA ServeFollows ==
    ASSUME TableInv, CallsShape, [Next]_vars, Serve
    PROVE  \A q \in Pages, t \in Slots : \A call \in InSlot(q, t)' :
               \E old \in InSlot(q, t) : Follows(old, call)
<1>1. ASSUME NEW p \in Pages, NEW s \in Slots,
             \/ Unauthorised(p, s) \/ ReadRows(p, s) \/ ReadPost(p, s) \/ ListPosts(p, s)
             \/ ToggleLike(p, s) \/ CreateComment(p, s)
             \/ StoreImage(p, s) \/ CreatePost(p, s) \/ FailPublish(p, s)
      PROVE  \A q \in Pages, t \in Slots : \A call \in InSlot(q, t)' :
                 \E old \in InSlot(q, t) : Follows(old, call)
  <2>1. PICK old, call : old = calls[p][s] /\ call = calls'[p][s]
    OBVIOUS
  <2>2. Follows(old, call)
    BY <1>1, <2>1, PlainFollows, CommentFollows, RowsFollow, PostFollows, ListFollows
  <2> QED
    BY <1>1, <2>1, <2>2, OthersFollow
<1>2. CASE calls' = calls
  BY <1>2, FollowSame DEF InSlot
<1>3. CASE Restart
  <2> SUFFICES ASSUME NEW q \in Pages, NEW t \in Slots, NEW call \in InSlot(q, t)'
               PROVE  \E old \in InSlot(q, t) : Follows(old, call)
    OBVIOUS
  <2>1. PICK old : old = calls[q][t]
    OBVIOUS
  <2>2. call = calls'[q][t] /\ call # None
    BY DEF InSlot
  <2>3. call = IF old = None \/ old.stage = "replied" THEN old
               ELSE [old EXCEPT !.stage = "replied", !.status = 0]
    BY <1>3, <2>1, <2>2 DEF Restart
  <2>4. old \in InSlot(q, t)
    BY <2>1, <2>2, <2>3 DEF InSlot
  <2>5. CASE call = old
    BY <2>4, <2>5, FollowSame
  <2>6. CASE call = [old EXCEPT !.stage = "replied", !.status = 0]
    <3>1. DOMAIN old = Fields
      BY <2>1, <2>4 DEF InSlot, CallsShape, CallOK
    <3>2. /\ call.kind = old.kind /\ call.key = old.key /\ call.post = old.post
          /\ call.stamp = old.stamp /\ call.rows = old.rows /\ call.view = old.view
          /\ call.status = 0
      BY <2>6, <3>1 DEF Fields, Call
    <3> QED
      BY <2>4, <3>2, FollowAs DEF Accepted
  <2> QED
    BY <2>3, <2>5, <2>6
<1>4. ASSUME Reset \/ RemoveMedia \/ \E p \in Pages : EndSession(p) PROVE calls' = calls
  BY <1>4 DEF Reset, RemoveMedia, EndSession
<1> QED
  BY <1>1, <1>2, <1>3, <1>4 DEF Serve

(* No comment reaches a later post under an old number. *)
LEMMA CommentsReach ==
    ASSUME TableInv, FeedInv, [Next]_vars
    PROVE  CommentsReachTheirPost'
<1>1. ASSUME NEW c \in comments PROVE Stamped(c.post, c.stamp)
  BY DEF FeedInv, CommentsReachTheirPost, TableInv, Stamped
<1>2. ASSUME NEW c \in comments, c.post \in DOMAIN posts' PROVE posts'[c.post].stamp = c.stamp
  <2>1. Stamped(c.post, c.stamp)
    BY <1>1
  <2>2. PICK post, stamp : post = c.post /\ stamp = c.stamp
    OBVIOUS
  <2>3. Stamped(post, stamp)'
    BY <2>1, <2>2, StampedStays
  <2> QED
    BY <1>2, <2>2, <2>3 DEF Stamped
<1>3. ASSUME NEW p \in Pages, NEW s \in Slots, CreateComment(p, s), NEW c \in comments',
             c \notin comments, c.post \in DOMAIN posts'
      PROVE  posts'[c.post].stamp = c.stamp
  <2>1. c.post = calls[p][s].post /\ c.stamp = calls[p][s].stamp
    BY <1>3 DEF CreateComment
  <2>2. calls[p][s] \in InSlot(p, s) /\ calls[p][s].kind = "comment"
    BY <1>3 DEF CreateComment, Pending, InSlot
  <2>3. s = "act"
    BY <2>2 DEF FeedInv, PageOK, LoadsOK, LoadSlots
  <2>4. Stamped(c.post, c.stamp)
    BY <2>1, <2>2, <2>3 DEF FeedInv, PageOK, ActOK
  <2>5. Stamped(c.post, c.stamp)'
    BY <2>4, StampedStays
  <2> QED
    BY <1>3, <2>5 DEF Stamped
<1>4. \A c \in comments' : c \in comments \/ \E p \in Pages, s \in Slots : CreateComment(p, s)
  <2>1. ASSUME NEW image, Insert(image) PROVE comments' = comments
    BY <2>1 DEF Insert
  <2> QED
    BY <2>1, TableWriters
<1> QED
  BY <1>2, <1>3, <1>4 DEF CommentsReachTheirPost

LEMMA CardsStay ==
    ASSUME TableInv, FeedInv, [Next]_vars, NEW p \in Pages, cards'[p] = cards[p],
           loads'[p] = loads[p]
    PROVE  CardsOK(p)'
<1>1. ASSUME NEW card \in Elements(cards[p])
      PROVE  DOMAIN card = CardFields /\ card.key \in 1 .. loads'[p] /\ ShownOK(card)'
  <2>1. DOMAIN card = CardFields /\ card.key \in 1 .. loads[p] /\ ShownOK(card)
    BY DEF FeedInv, PageOK, CardsOK
  <2> QED
    BY <2>1, ShownStays
<1>2. IsSeq(cards[p])
  BY DEF FeedInv, PageOK, CardsOK
<1> QED
  BY <1>1, <1>2 DEF CardsOK, IsSeq, Elements

(* The act call of a page, after any step that keeps its cards or changes   *)
(* them for the better.                                                     *)
LEMMA LoadsFollow ==
    ASSUME TableInv, FeedInv, [Next]_vars, NEW p \in Pages, NEW s \in LoadSlots,
           cards'[p] = cards[p], loads'[p] = loads[p],
           \A t \in Slots : \A call \in InSlot(p, t)' : \E old \in InSlot(p, t) : Follows(old, call),
           NEW call \in InSlot(p, s)'
    PROVE  /\ call.kind = "load" /\ call.key \in 1 .. loads'[p] /\ ReadOK(call)'
           /\ \A card \in Elements(cards'[p]) : card.key # call.key
           /\ \A t \in LoadSlots : \A other \in InSlot(p, t)' : t # s => other.key # call.key
<1>1. ASSUME NEW t \in LoadSlots, NEW new \in InSlot(p, t)'
      PROVE  \E old \in InSlot(p, t) :
                Follows(old, new) /\ old.kind = "load" /\ new.kind = "load" /\ new.key = old.key
  <2>1. PICK old \in InSlot(p, t) : Follows(old, new)
    BY DEF LoadSlots
  <2>2. old.kind = "load"
    BY DEF FeedInv, PageOK, LoadsOK
  <2> QED
    BY <2>1, <2>2 DEF Follows
<1>2. PICK old \in InSlot(p, s) :
         Follows(old, call) /\ old.kind = "load" /\ call.kind = "load" /\ call.key = old.key
  BY <1>1
<1>3. /\ old.key \in 1 .. loads[p] /\ ReadOK(old)
      /\ \A card \in Elements(cards[p]) : card.key # old.key
      /\ \A t \in LoadSlots : \A other \in InSlot(p, t) : t # s => other.key # old.key
  BY DEF FeedInv, PageOK, LoadsOK
<1>4. ReadOK(call)'
  BY <1>2, <1>3 DEF Follows
<1>5. ASSUME NEW t \in LoadSlots, NEW other \in InSlot(p, t)', t # s PROVE other.key # call.key
  <2>1. PICK was \in InSlot(p, t) : other.key = was.key
    BY <1>1
  <2> QED
    BY <1>2, <1>3, <1>5, <2>1
<1> QED
  BY <1>2, <1>3, <1>4, <1>5

LEMMA ActFollows ==
    ASSUME TableInv, FeedInv, [Next]_vars, NEW p \in Pages, "act" \in Slots,
           cards'[p] = cards[p], loads'[p] = loads[p],
           \A t \in Slots : \A call \in InSlot(p, t)' : \E old \in InSlot(p, t) : Follows(old, call),
           NEW call \in InSlot(p, "act")'
    PROVE  /\ call.kind \in {"like", "comment", "publish"}
           /\ call.kind # "publish" =>
                /\ Stamped(call.post, call.stamp)' /\ call.key \in 1 .. loads'[p]
                /\ \A s \in LoadSlots : \A other \in InSlot(p, s)' : other.key # call.key
           /\ Accepted(call) =>
                /\ Saved(call.post, call.comment)'
                /\ \A card \in Elements(cards'[p]) :
                     SameCard(card, call) => call.comment \notin Elements(card.list)
<1>1. PICK old \in InSlot(p, "act") : Follows(old, call)
  OBVIOUS
<1>2. /\ old.kind \in {"like", "comment", "publish"} /\ call.kind = old.kind
      /\ call.kind # "publish" =>
           /\ call.key = old.key /\ call.post = old.post /\ call.stamp = old.stamp
           /\ Stamped(old.post, old.stamp) /\ old.key \in 1 .. loads[p]
           /\ \A s \in LoadSlots : \A other \in InSlot(p, s) : other.key # old.key
      /\ Accepted(old) =>
           /\ Saved(old.post, old.comment)
           /\ \A card \in Elements(cards[p]) :
                SameCard(card, old) => old.comment \notin Elements(card.list)
  BY <1>1 DEF FeedInv, PageOK, ActOK, Follows
<1>3. ASSUME call.kind # "publish"
      PROVE  /\ Stamped(call.post, call.stamp)' /\ call.key \in 1 .. loads'[p]
             /\ \A s \in LoadSlots : \A other \in InSlot(p, s)' : other.key # call.key
  <2>1. Stamped(call.post, call.stamp)'
    BY <1>2, <1>3, StampedStays
  <2>2. ASSUME NEW s \in LoadSlots, NEW other \in InSlot(p, s)' PROVE other.key # call.key
    <3>1. PICK was \in InSlot(p, s) : Follows(was, other)
      BY DEF LoadSlots
    <3>2. was.kind = "load"
      BY DEF FeedInv, PageOK, LoadsOK
    <3>3. other.key = was.key
      BY <3>1, <3>2 DEF Follows
    <3> QED
      BY <1>2, <1>3, <3>3
  <2> QED
    BY <1>2, <1>3, <2>1, <2>2
<1>4. ASSUME Accepted(call)
      PROVE  /\ Saved(call.post, call.comment)'
             /\ \A card \in Elements(cards'[p]) :
                  SameCard(card, call) => call.comment \notin Elements(card.list)
  <2>1. call.kind # "publish"
    BY <1>4 DEF Accepted
  <2>2. CASE Accepted(old) /\ call.comment = old.comment
    <3>1. old.post \in 1 .. lastPost
      BY <1>2, <2>1 DEF Stamped
    <3>2. Saved(call.post, call.comment)'
      BY <1>2, <2>1, <2>2, <3>1, SavedStays
    <3> QED
      BY <1>2, <2>1, <2>2, <3>2 DEF SameCard
  <2>3. CASE call.comment \notin 1 .. lastComment /\ Saved(call.post, call.comment)'
    <3>1. ASSUME NEW card \in Elements(cards[p]) PROVE call.comment \notin Elements(card.list)
      <4>1. \A id \in Elements(card.list) : id \in 1 .. lastComment
        BY DEF FeedInv, PageOK, CardsOK, ShownOK, Saved
      <4> QED
        BY <2>3, <4>1
    <3> QED
      BY <2>3, <3>1
  <2> QED
    BY <1>1, <1>4, <2>2, <2>3 DEF Follows
<1> QED
  BY <1>2, <1>3, <1>4

LEMMA PageFollows ==
    ASSUME TableInv, FeedInv, [Next]_vars, NEW p \in Pages,
           cards'[p] = cards[p], loads'[p] = loads[p],
           \A t \in Slots : \A call \in InSlot(p, t)' : \E old \in InSlot(p, t) : Follows(old, call)
    PROVE  PageOK(p)'
<1>1. LoadsOK(p)'
  <2> SUFFICES ASSUME NEW s \in LoadSlots, NEW call \in InSlot(p, s)'
               PROVE  /\ call.kind = "load" /\ call.key \in 1 .. loads'[p] /\ ReadOK(call)'
                      /\ \A card \in Elements(cards'[p]) : card.key # call.key
                      /\ \A t \in LoadSlots : \A other \in InSlot(p, t)' :
                           t # s => other.key # call.key
    BY DEF LoadsOK, Elements, LoadSlots
  <2> QED
    BY LoadsFollow
<1>2. ActOK(p)'
  <2> SUFFICES ASSUME NEW call \in InSlot(p, "act")'
               PROVE  /\ call.kind \in {"like", "comment", "publish"}
                      /\ call.kind # "publish" =>
                           /\ Stamped(call.post, call.stamp)' /\ call.key \in 1 .. loads'[p]
                           /\ \A s \in LoadSlots : \A other \in InSlot(p, s)' : other.key # call.key
                      /\ Accepted(call) =>
                           /\ Saved(call.post, call.comment)'
                           /\ \A card \in Elements(cards'[p]) :
                                SameCard(card, call) => call.comment \notin Elements(card.list)
    BY DEF ActOK, Elements, LoadSlots, Accepted, SameCard
  <2> QED
    BY SlotsAssumption, ActFollows
<1> QED
  BY <1>1, <1>2, CardsStay DEF PageOK

(* A step that leaves the cards and the numbers of the loads alone. *)
LEMMA FeedFollow ==
    ASSUME TableInv, FeedInv, [Next]_vars, cards' = cards, loads' = loads,
           sent' \in Nat, sent <= sent',
           \A p \in Pages, t \in Slots : \A call \in InSlot(p, t)' :
               \E old \in InSlot(p, t) : Follows(old, call)
    PROVE  FeedInv'
<1>1. PageInv'
  BY DEF FeedInv, PageInv
<1>2. \A p \in Pages : PageOK(p)'
  BY PageFollows
<1> QED
  BY <1>1, <1>2, CommentsReach DEF FeedInv

LEMMA FeedServe ==
    ASSUME TableInv, CallsShape, FeedInv, [Next]_vars, Serve, UNCHANGED <<page, sent>>
    PROVE  FeedInv'
<1>1. cards' = cards /\ loads' = loads /\ sent' = sent /\ sent \in Nat
  BY DEF page, FeedInv, PageInv
<1> QED
  BY <1>1, ServeFollows, FeedFollow

(* One slot changed, the others as they were. *)
LEMMA SlotSent ==
    ASSUME CallsShape, NEW p \in Pages, NEW s \in Slots, NEW call, Send(p, s, call)
    PROVE  /\ InSlot(p, s)' \subseteq {call} /\ InSlot(p, s) = {}
           /\ \A q \in Pages, t \in Slots : ~ (q = p /\ t = s) => InSlot(q, t)' = InSlot(q, t)
<1>1. calls'[p][s] = call /\ calls[p][s] = None
  BY DEF Send, CallsShape
<1>2. \A q \in Pages, t \in Slots : ~ (q = p /\ t = s) => calls'[q][t] = calls[q][t]
  BY DEF Send, CallsShape
<1> QED
  BY <1>1, <1>2 DEF InSlot

LEMMA SlotReceived ==
    ASSUME CallsShape, NEW p \in Pages, NEW s \in Slots, Receive(p, s)
    PROVE  /\ InSlot(p, s)' = {} /\ InSlot(p, s) = {calls[p][s]}
           /\ \A q \in Pages, t \in Slots : ~ (q = p /\ t = s) => InSlot(q, t)' = InSlot(q, t)
<1>1. calls'[p][s] = None /\ calls[p][s] # None
  BY DEF Receive, CallsShape
<1>2. \A q \in Pages, t \in Slots : ~ (q = p /\ t = s) => calls'[q][t] = calls[q][t]
  BY DEF Receive, CallsShape
<1> QED
  BY <1>1, <1>2 DEF InSlot

(* The other pages see nothing of what this one does. *)
LEMMA OtherPages ==
    ASSUME TableInv, FeedInv, [Next]_vars, NEW p \in Pages,
           \A q \in Pages : q # p => /\ cards'[q] = cards[q] /\ loads'[q] = loads[q]
                                     /\ \A t \in Slots : InSlot(q, t)' \subseteq InSlot(q, t),
           PageInv', PageOK(p)'
    PROVE  FeedInv'
<1>1. ASSUME NEW q \in Pages, q # p PROVE PageOK(q)'
  <2>1. \A t \in Slots : \A call \in InSlot(q, t)' : \E old \in InSlot(q, t) : Follows(old, call)
    BY <1>1, FollowSame
  <2> QED
    BY <1>1, <2>1, PageFollows
<1>2. \A q \in Pages : PageOK(q)'
  BY <1>1
<1> QED
  BY <1>2, CommentsReach DEF FeedInv

(* A page takes a reply and keeps its cards, or nothing happens to them. *)
LEMMA FeedKeeps ==
    ASSUME TableInv, CallsShape, FeedInv, [Next]_vars, cards' = cards, loads' = loads,
           sent' = sent,
           calls' = calls \/ \E p \in Pages, s \in Slots : Receive(p, s)
    PROVE  FeedInv'
<1>1. \A q \in Pages, t \in Slots : InSlot(q, t)' \subseteq InSlot(q, t)
  <2>1. CASE calls' = calls
    BY <2>1 DEF InSlot
  <2>2. ASSUME NEW p \in Pages, NEW s \in Slots, Receive(p, s)
        PROVE  \A q \in Pages, t \in Slots : InSlot(q, t)' \subseteq InSlot(q, t)
    BY <2>2, SlotReceived
  <2> QED
    BY <2>1, <2>2
<1>2. \A q \in Pages, t \in Slots : \A call \in InSlot(q, t)' :
          \E old \in InSlot(q, t) : Follows(old, call)
  BY <1>1, FollowSame
<1>3. sent' \in Nat /\ sent <= sent'
  BY DEF FeedInv, PageInv
<1> QED
  BY <1>2, <1>3, FeedFollow

(* A new load has a key of its own and an empty page before it. *)
LEMMA FeedBeginLoad ==
    ASSUME TableInv, CallsShape, FeedInv, [Next]_vars, NEW p \in Pages, NEW s \in Slots,
           NEW query, BeginLoad(p, s, query)
    PROVE  FeedInv'
<1>1. PICK key : key = loads[p] + 1
  OBVIOUS
<1> DEFINE new == Call("load", 0, 0, key, query)
<1>2. /\ s \in LoadSlots /\ Send(p, s, new)
      /\ loads' = [loads EXCEPT ![p] = key] /\ cards' = [cards EXCEPT ![p] = <<>>]
      /\ sent' = sent + 1
  BY <1>1 DEF BeginLoad, Send
<1>3. /\ new.kind = "load" /\ new.key = key /\ new.rows = <<>> /\ new.view = <<>>
  BY DEF Call
<1> HIDE DEF new
<1>4. /\ DOMAIN cards = Pages /\ sent \in Nat /\ loads \in [Pages -> Nat]
      /\ \A q \in Pages : loads[q] <= sent
  BY DEF FeedInv, PageInv
<1>5. /\ loads'[p] = key /\ cards'[p] = <<>> /\ key \in Nat /\ loads[p] \in Nat /\ key <= sent + 1
      /\ \A q \in Pages : q # p => cards'[q] = cards[q] /\ loads'[q] = loads[q]
  BY <1>1, <1>2, <1>4
<1>6. PageInv'
  BY <1>2, <1>4, <1>5 DEF PageInv
<1>7. /\ InSlot(p, s)' \subseteq {new}
      /\ \A q \in Pages, t \in Slots : ~ (q = p /\ t = s) => InSlot(q, t)' = InSlot(q, t)
  BY <1>2, SlotSent
<1>8. CardsOK(p)'
  BY <1>5, NoCards DEF CardsOK, IsSeq, Elements
<1>9. ReadOK(new)'
  BY <1>3, NoCards DEF ReadOK, IsSeq, Elements
<1>10. ASSUME NEW t \in LoadSlots, NEW call \in InSlot(p, t)', t # s
       PROVE  call.kind = "load" /\ call.key \in 1 .. loads[p] /\ ReadOK(call)'
              /\ \A u \in LoadSlots : \A other \in InSlot(p, u) : u # t => other.key # call.key
  <2>1. call \in InSlot(p, t)
    BY <1>7, <1>10 DEF LoadSlots
  <2> QED
    BY <2>1, ReadStays DEF FeedInv, PageOK, LoadsOK
<1>11. \A k \in 1 .. loads[p] : k \in 1 .. key /\ k # key
  BY <1>1, <1>5
<1>12. key \in 1 .. key
  BY <1>1, <1>5
<1>13. LoadsOK(p)'
  <2> SUFFICES ASSUME NEW t \in LoadSlots, NEW call \in InSlot(p, t)'
               PROVE  /\ call.kind = "load" /\ call.key \in 1 .. loads'[p] /\ ReadOK(call)'
                      /\ \A card \in Elements(cards'[p]) : card.key # call.key
                      /\ \A u \in LoadSlots : \A other \in InSlot(p, u)' :
                           u # t => other.key # call.key
    BY DEF LoadsOK, Elements, LoadSlots
  <2>1. \A card \in Elements(cards'[p]) : card.key # call.key
    BY <1>5, NoCards
  <2>2. CASE t = s
    <3>1. call = new
      BY <1>7, <2>2
    <3>2. ASSUME NEW u \in LoadSlots, NEW other \in InSlot(p, u)', u # t PROVE other.key # call.key
      BY <1>3, <1>10, <1>11, <2>2, <3>1, <3>2
    <3> QED
      BY <1>3, <1>5, <1>9, <1>12, <2>1, <3>1, <3>2
  <2>3. CASE t # s
    <3>1. call.kind = "load" /\ call.key \in 1 .. loads[p] /\ ReadOK(call)'
      BY <1>10, <2>3
    <3>2. ASSUME NEW u \in LoadSlots, NEW other \in InSlot(p, u)', u # t PROVE other.key # call.key
      <4>1. CASE u = s
        BY <1>3, <1>7, <1>11, <3>1, <4>1
      <4>2. CASE u # s
        <5>1. other \in InSlot(p, u)
          BY <1>7, <4>2 DEF LoadSlots
        <5> QED
          BY <1>10, <2>3, <3>2, <5>1
      <4> QED
        BY <4>1, <4>2
    <3> QED
      BY <1>5, <1>11, <2>1, <3>1, <3>2
  <2> QED
    BY <2>2, <2>3
<1>14. ActOK(p)'
  <2> SUFFICES ASSUME NEW call \in InSlot(p, "act")'
               PROVE  /\ call.kind \in {"like", "comment", "publish"}
                      /\ call.kind # "publish" =>
                           /\ Stamped(call.post, call.stamp)' /\ call.key \in 1 .. loads'[p]
                           /\ \A t \in LoadSlots : \A other \in InSlot(p, t)' : other.key # call.key
                      /\ Accepted(call) =>
                           /\ Saved(call.post, call.comment)'
                           /\ \A card \in Elements(cards'[p]) :
                                SameCard(card, call) => call.comment \notin Elements(card.list)
    BY DEF ActOK, Elements, LoadSlots, Accepted, SameCard
  <2>1. call \in InSlot(p, "act")
    BY <1>2, <1>7, SlotsAssumption DEF LoadSlots
  <2>2. /\ call.kind \in {"like", "comment", "publish"}
        /\ call.kind # "publish" =>
             /\ Stamped(call.post, call.stamp) /\ call.key \in 1 .. loads[p]
             /\ \A t \in LoadSlots : \A other \in InSlot(p, t) : other.key # call.key
        /\ Accepted(call) => Saved(call.post, call.comment)
    BY <2>1 DEF FeedInv, PageOK, ActOK
  <2>3. Accepted(call) => Saved(call.post, call.comment)'
    <3>1. call.kind # "publish" => call.post \in 1 .. lastPost
      BY <2>2 DEF Stamped
    <3> QED
      BY <2>2, <3>1, SavedStays DEF Accepted
  <2>4. ASSUME call.kind # "publish", NEW t \in LoadSlots, NEW other \in InSlot(p, t)'
        PROVE  other.key # call.key
    <3>1. CASE t = s
      BY <1>3, <1>7, <1>11, <2>2, <2>4, <3>1
    <3>2. CASE t # s
      <4>1. other \in InSlot(p, t)
        BY <1>7, <3>2 DEF LoadSlots
      <4> QED
        BY <2>2, <2>4, <4>1
    <3> QED
      BY <3>1, <3>2
  <2> QED
    BY <1>5, <1>11, <2>2, <2>3, <2>4, StampedStays, NoCards
<1>15. \A q \in Pages : q # p => /\ cards'[q] = cards[q] /\ loads'[q] = loads[q]
                                 /\ \A t \in Slots : InSlot(q, t)' \subseteq InSlot(q, t)
  BY <1>5, <1>7
<1> QED
  BY <1>6, <1>8, <1>13, <1>14, <1>15, OtherPages DEF PageOK

(* The rest of a page after it took a reply: its loads and its request are  *)
(* as good as its new cards let them be.                                    *)
LEMMA ReceiveLoads ==
    ASSUME TableInv, CallsShape, FeedInv, [Next]_vars, NEW p \in Pages, NEW s \in Slots,
           Receive(p, s), loads'[p] = loads[p],
           \A t \in LoadSlots : \A call \in InSlot(p, t) :
               t # s => \A card \in Elements(cards'[p]) : card.key # call.key
    PROVE  LoadsOK(p)'
<1>1. \A t \in Slots : t # s => InSlot(p, t)' = InSlot(p, t)
  BY SlotReceived
<1>2. InSlot(p, s)' = {}
  BY SlotReceived
<1>3. \A t \in LoadSlots : InSlot(p, t)' \subseteq InSlot(p, t) /\ (InSlot(p, t)' # {} => t # s)
  BY <1>1, <1>2 DEF LoadSlots
<1> SUFFICES ASSUME NEW t \in LoadSlots, NEW call \in InSlot(p, t)'
             PROVE  /\ call.kind = "load" /\ call.key \in 1 .. loads'[p] /\ ReadOK(call)'
                    /\ \A card \in Elements(cards'[p]) : card.key # call.key
                    /\ \A u \in LoadSlots : \A other \in InSlot(p, u)' :
                         u # t => other.key # call.key
  BY DEF LoadsOK, Elements, LoadSlots
<1>4. call \in InSlot(p, t) /\ t # s
  BY <1>3
<1>5. /\ call.kind = "load" /\ call.key \in 1 .. loads[p] /\ ReadOK(call)
      /\ \A u \in LoadSlots : \A other \in InSlot(p, u) : u # t => other.key # call.key
  BY <1>4 DEF FeedInv, PageOK, LoadsOK
<1>6. ASSUME NEW u \in LoadSlots, NEW other \in InSlot(p, u)', u # t PROVE other.key # call.key
  <2>1. other \in InSlot(p, u)
    BY <1>3
  <2> QED
    BY <1>5, <1>6, <2>1
<1>7. ReadOK(call)'
  BY <1>5, ReadStays
<1>8. \A card \in Elements(cards'[p]) : card.key # call.key
  BY <1>4
<1> QED
  BY <1>5, <1>6, <1>7, <1>8

LEMMA ReceiveAct ==
    ASSUME TableInv, CallsShape, FeedInv, [Next]_vars, NEW p \in Pages, NEW s \in LoadSlots,
           Receive(p, s), loads'[p] = loads[p],
           \A call \in InSlot(p, "act") : Accepted(call) =>
               \A card \in Elements(cards'[p]) :
                   SameCard(card, call) => call.comment \notin Elements(card.list)
    PROVE  ActOK(p)'
<1>1. InSlot(p, "act")' = InSlot(p, "act")
  BY SlotReceived, SlotsAssumption DEF LoadSlots
<1>2. \A t \in LoadSlots : InSlot(p, t)' \subseteq InSlot(p, t)
  BY SlotReceived DEF LoadSlots
<1> SUFFICES ASSUME NEW call \in InSlot(p, "act")
             PROVE  /\ call.kind \in {"like", "comment", "publish"}
                    /\ call.kind # "publish" =>
                         /\ Stamped(call.post, call.stamp)' /\ call.key \in 1 .. loads'[p]
                         /\ \A t \in LoadSlots : \A other \in InSlot(p, t)' : other.key # call.key
                    /\ Accepted(call) =>
                         /\ Saved(call.post, call.comment)'
                         /\ \A card \in Elements(cards'[p]) :
                              SameCard(card, call) => call.comment \notin Elements(card.list)
  BY <1>1 DEF ActOK, Elements, LoadSlots, Accepted, SameCard
<1>3. /\ call.kind \in {"like", "comment", "publish"}
      /\ call.kind # "publish" =>
           /\ Stamped(call.post, call.stamp) /\ call.key \in 1 .. loads[p]
           /\ \A t \in LoadSlots : \A other \in InSlot(p, t) : other.key # call.key
      /\ Accepted(call) => Saved(call.post, call.comment)
  BY DEF FeedInv, PageOK, ActOK
<1>4. Accepted(call) => Saved(call.post, call.comment)'
  <2>1. call.kind # "publish" => call.post \in 1 .. lastPost
    BY <1>3 DEF Stamped
  <2> QED
    BY <1>3, <2>1, SavedStays DEF Accepted
<1>5. \A t \in LoadSlots : \A other \in InSlot(p, t)' : other \in InSlot(p, t)
  BY <1>2
<1>6. Accepted(call) => \A card \in Elements(cards'[p]) :
        SameCard(card, call) => call.comment \notin Elements(card.list)
  OBVIOUS
<1> QED
  BY <1>3, <1>4, <1>5, <1>6, StampedStays

(* What every taken reply leaves to show. *)
LEMMA ReceivePage ==
    ASSUME TableInv, CallsShape, FeedInv, [Next]_vars, NEW p \in Pages, NEW s \in Slots,
           Receive(p, s), loads' = loads, NEW new, cards' = [cards EXCEPT ![p] = new],
           PageOK(p)'
    PROVE  FeedInv'
<1>1. sent' = sent
  BY DEF Receive
<1>2. PageInv'
  BY <1>1 DEF FeedInv, PageInv
<1>3. DOMAIN cards = Pages
  BY DEF FeedInv, PageInv
<1>4. \A q \in Pages : q # p => /\ cards'[q] = cards[q] /\ loads'[q] = loads[q]
                                /\ \A t \in Slots : InSlot(q, t)' \subseteq InSlot(q, t)
  BY <1>3, SlotReceived
<1> QED
  BY <1>2, <1>4, OtherPages

(* The cards of an answer carry the key of their load, so no request that   *)
(* is under way is about them.                                              *)
LEMMA FeedEndLoad ==
    ASSUME TableInv, CallsShape, FeedInv, [Next]_vars, NEW p \in Pages, NEW s \in Slots,
           EndLoad(p, s)
    PROVE  FeedInv'
<1>1. s \in LoadSlots /\ Receive(p, s) /\ loads' = loads /\ sent' = sent
  BY DEF EndLoad, Receive
<1>2. DOMAIN cards = Pages
  BY DEF FeedInv, PageInv
<1>3. CASE cards' = cards
  BY <1>1, <1>3, FeedKeeps
<1>4. CASE cards' = [cards EXCEPT ![p] = <<>>]
  <2>1. cards'[p] = <<>> /\ Elements(cards'[p]) = {}
    BY <1>2, <1>4, NoCards
  <2>2. CardsOK(p)'
    BY <2>1, NoCards DEF CardsOK, IsSeq, Elements
  <2>3. LoadsOK(p)' /\ ActOK(p)'
    BY <1>1, <2>1, ReceiveLoads, ReceiveAct
  <2> QED
    BY <1>1, <1>4, <2>2, <2>3, ReceivePage DEF PageOK
<1>5. CASE ~ (cards' = cards \/ cards' = [cards EXCEPT ![p] = <<>>])
  <2>1. PICK call : call = calls[p][s]
    OBVIOUS
  <2>2. PICK new :
          /\ new = [i \in 1 .. Len(call.view) |->
                      [key |-> call.key, post |-> call.view[i].post, stamp |-> call.view[i].stamp,
                       count |-> call.view[i].count, list |-> call.view[i].list,
                       likes |-> call.view[i].likes, liked |-> call.view[i].liked]]
          /\ cards' = [cards EXCEPT ![p] = @ \o new]
    <3> DEFINE under == calls[p][s]
               made == [i \in 1 .. Len(under.view) |->
                          [key |-> under.key, post |-> under.view[i].post,
                           stamp |-> under.view[i].stamp, count |-> under.view[i].count,
                           list |-> under.view[i].list, likes |-> under.view[i].likes,
                           liked |-> under.view[i].liked]]
    <3>1. \/ UNCHANGED cards \/ cards' = [cards EXCEPT ![p] = <<>>]
          \/ cards' = [cards EXCEPT ![p] = @ \o made]
      BY DEF EndLoad
    <3>2. cards' = [cards EXCEPT ![p] = @ \o made]
      BY <1>5, <3>1
    <3> QED
      BY <2>1, <3>2
  <2>3. call \in InSlot(p, s)
    BY <1>1, <2>1 DEF InSlot, Receive
  <2>4. /\ call.key \in 1 .. loads[p] /\ ReadOK(call)
        /\ \A t \in LoadSlots : \A other \in InSlot(p, t) : t # s => other.key # call.key
    BY <1>1, <2>3 DEF FeedInv, PageOK, LoadsOK
  <2>5. IsSeq(new) /\ Len(new) = Len(call.view)
    <3>1. Len(call.view) \in Nat
      BY <2>4 DEF ReadOK, IsSeq
    <3>2. DOMAIN new = 1 .. Len(call.view) /\ new = [i \in 1 .. Len(call.view) |-> new[i]]
      BY <2>2
    <3> QED
      BY <3>1, <3>2, MadeShape
  <2>6. ASSUME NEW card \in Elements(new)
        PROVE  DOMAIN card = CardFields /\ card.key = call.key /\ ShownOK(card)
    <3>1. PICK i \in 1 .. Len(call.view) : card = new[i]
      BY <2>5 DEF Elements
    <3>2. call.view[i] \in Elements(call.view)
      BY DEF Elements
    <3>3. ShownOK(call.view[i])
      BY <2>4, <3>2 DEF ReadOK
    <3>4. /\ DOMAIN card = CardFields /\ card.key = call.key /\ card.post = call.view[i].post
          /\ card.stamp = call.view[i].stamp /\ card.list = call.view[i].list
      BY <2>2, <3>1 DEF CardFields
    <3> QED
      BY <3>3, <3>4 DEF ShownOK
  <2>7. CardsOK(p)
    BY DEF FeedInv, PageOK
  <2>8. PICK all : all = cards[p] \o new
    OBVIOUS
  <2>9. IsSeq(all) /\ \A card \in Elements(all) : card \in Elements(cards[p]) \/ card \in Elements(new)
    <3>1. IsSeq(cards[p])
      BY <2>7 DEF CardsOK
    <3> QED
      BY <2>5, <2>8, <3>1, ConcatShape DEF Elements
  <2>10. cards'[p] = all /\ cards' = [cards EXCEPT ![p] = all]
    BY <1>2, <2>2, <2>8
  <2>11. CardsOK(p)'
    <3>1. ASSUME NEW card \in Elements(all)
          PROVE  DOMAIN card = CardFields /\ card.key \in 1 .. loads[p] /\ ShownOK(card)'
      <4>1. DOMAIN card = CardFields /\ card.key \in 1 .. loads[p] /\ ShownOK(card)
        BY <2>4, <2>6, <2>7, <2>9 DEF CardsOK
      <4> QED
        BY <4>1, ShownStays
    <3> QED
      BY <1>1, <2>9, <2>10, <3>1 DEF CardsOK, IsSeq, Elements
  <2>12. LoadsOK(p)'
    <3>1. ASSUME NEW t \in LoadSlots, NEW other \in InSlot(p, t), t # s,
                 NEW card \in Elements(cards'[p])
          PROVE  card.key # other.key
      <4>1. \A c \in Elements(cards[p]) : c.key # other.key
        BY DEF FeedInv, PageOK, LoadsOK
      <4>2. \A c \in Elements(new) : c.key # other.key
        BY <2>4, <2>6, <3>1
      <4> QED
        BY <2>9, <2>10, <4>1, <4>2
    <3> QED
      BY <1>1, <3>1, ReceiveLoads
  <2>13. ActOK(p)'
    <3>1. ASSUME NEW act \in InSlot(p, "act"), Accepted(act), NEW card \in Elements(cards'[p]),
                 SameCard(card, act)
          PROVE  act.comment \notin Elements(card.list)
      <4>1. /\ \A c \in Elements(cards[p]) : SameCard(c, act) => act.comment \notin Elements(c.list)
            /\ act.kind # "publish" => call.key # act.key
        BY <1>1, <2>3, <3>1 DEF FeedInv, PageOK, ActOK
      <4>2. card.key # call.key
        BY <3>1, <4>1 DEF SameCard, Accepted
      <4>3. card \in Elements(cards[p])
        BY <2>6, <2>9, <2>10, <4>2
      <4> QED
        BY <3>1, <4>1, <4>3
    <3> QED
      BY <1>1, <3>1, ReceiveAct
  <2> QED
    BY <1>1, <2>10, <2>11, <2>12, <2>13, ReceivePage DEF PageOK
<1> QED
  BY <1>3, <1>4, <1>5

(* A request takes over what its card says. *)
LEMMA FeedSends ==
    ASSUME TableInv, CallsShape, FeedInv, [Next]_vars, NEW p \in Pages, NEW new,
           Send(p, "act", new), UNCHANGED page,
           new.kind \in {"like", "comment", "publish"}, new.stage = "sent",
           new.kind # "publish" =>
               \E card \in Elements(cards[p]) :
                   new.post = card.post /\ new.stamp = card.stamp /\ new.key = card.key
    PROVE  FeedInv'
<1>1. cards' = cards /\ loads' = loads /\ sent' = sent + 1 /\ "act" \in Slots
  BY SlotsAssumption DEF page, Send
<1>2. /\ InSlot(p, "act")' \subseteq {new}
      /\ \A q \in Pages, t \in Slots : ~ (q = p /\ t = "act") => InSlot(q, t)' = InSlot(q, t)
  BY <1>1, SlotSent
<1>3. PageInv'
  BY <1>1 DEF FeedInv, PageInv
<1>4. CardsOK(p)'
  BY <1>1, CardsStay
<1>5. LoadsOK(p)'
  <2> SUFFICES ASSUME NEW t \in LoadSlots, NEW call \in InSlot(p, t)'
               PROVE  /\ call.kind = "load" /\ call.key \in 1 .. loads'[p] /\ ReadOK(call)'
                      /\ \A card \in Elements(cards'[p]) : card.key # call.key
                      /\ \A u \in LoadSlots : \A other \in InSlot(p, u)' :
                           u # t => other.key # call.key
    BY DEF LoadsOK, Elements, LoadSlots
  <2>1. \A u \in LoadSlots : InSlot(p, u)' = InSlot(p, u)
    BY <1>2 DEF LoadSlots
  <2>2. call \in InSlot(p, t)
    BY <2>1
  <2>3. /\ call.kind = "load" /\ call.key \in 1 .. loads[p] /\ ReadOK(call)
        /\ \A card \in Elements(cards[p]) : card.key # call.key
        /\ \A u \in LoadSlots : \A other \in InSlot(p, u) : u # t => other.key # call.key
    BY <2>2 DEF FeedInv, PageOK, LoadsOK
  <2> QED
    BY <1>1, <2>1, <2>3, ReadStays
<1>6. ActOK(p)'
  <2> SUFFICES ASSUME NEW call \in InSlot(p, "act")'
               PROVE  /\ call.kind \in {"like", "comment", "publish"}
                      /\ call.kind # "publish" =>
                           /\ Stamped(call.post, call.stamp)' /\ call.key \in 1 .. loads'[p]
                           /\ \A t \in LoadSlots : \A other \in InSlot(p, t)' : other.key # call.key
                      /\ ~ Accepted(call)
    BY DEF ActOK, Elements, LoadSlots, Accepted, SameCard
  <2>1. call = new
    BY <1>2
  <2>2. ASSUME call.kind # "publish"
        PROVE  /\ Stamped(call.post, call.stamp)' /\ call.key \in 1 .. loads'[p]
               /\ \A t \in LoadSlots : \A other \in InSlot(p, t)' : other.key # call.key
    <3>1. PICK card \in Elements(cards[p]) :
            call.post = card.post /\ call.stamp = card.stamp /\ call.key = card.key
      BY <2>1, <2>2
    <3>2. card.key \in 1 .. loads[p] /\ Stamped(card.post, card.stamp)
      BY DEF FeedInv, PageOK, CardsOK, ShownOK
    <3>3. ASSUME NEW t \in LoadSlots, NEW other \in InSlot(p, t)' PROVE other.key # call.key
      <4>1. other \in InSlot(p, t)
        BY <1>2 DEF LoadSlots
      <4> QED
        BY <3>1, <4>1 DEF FeedInv, PageOK, LoadsOK
    <3> QED
      BY <1>1, <3>1, <3>2, <3>3, StampedStays
  <2> QED
    BY <2>1, <2>2 DEF Accepted
<1>7. \A q \in Pages : q # p => /\ cards'[q] = cards[q] /\ loads'[q] = loads[q]
                                /\ \A t \in Slots : InSlot(q, t)' \subseteq InSlot(q, t)
  BY <1>1, <1>2
<1> QED
  BY <1>3, <1>4, <1>5, <1>6, <1>7, OtherPages DEF PageOK

(* The comment a reply reports is new to the card it was written on.        *)
LEMMA FeedEndAction ==
    ASSUME TableInv, CallsShape, FeedInv, [Next]_vars, NEW p \in Pages, EndAction(p)
    PROVE  FeedInv'
<1>1. Receive(p, "act") /\ loads' = loads /\ sent' = sent /\ "act" \in Slots
  BY SlotsAssumption DEF EndAction, Receive
<1>2. DOMAIN cards = Pages
  BY DEF FeedInv, PageInv
<1>3. CASE cards' = cards
  BY <1>1, <1>3, FeedKeeps
<1>4. CASE cards' # cards
  <2>1. PICK call : call = calls[p]["act"]
    OBVIOUS
  <2>2. PICK old : old = cards[p]
    OBVIOUS
  <2>3. PICK new :
          /\ new = [i \in 1 .. Len(old) |->
                      IF SameCard(old[i], call) THEN Updated(old[i], call) ELSE old[i]]
          /\ cards' = [cards EXCEPT ![p] = new] /\ call.status \in {200, 201}
    <3> DEFINE under == calls[p]["act"]
               made == [i \in 1 .. Len(cards[p]) |->
                          IF SameCard(cards[p][i], under) THEN Updated(cards[p][i], under)
                          ELSE cards[p][i]]
    <3>1. cards' = [cards EXCEPT ![p] = made] /\ under.status \in {200, 201}
      BY <1>2, <1>4 DEF EndAction
    <3>2. made = [i \in 1 .. Len(old) |->
                    IF SameCard(old[i], call) THEN Updated(old[i], call) ELSE old[i]]
      BY <2>1, <2>2
    <3> HIDE DEF made
    <3> QED
      BY <2>1, <3>1, <3>2
  <2>4. call \in InSlot(p, "act") /\ call.stage = "replied"
    BY <1>1, <2>1 DEF InSlot, Receive
  <2>5. /\ IsSeq(old) /\ call.kind \in {"like", "comment", "publish"}
        /\ \A card \in Elements(old) :
             DOMAIN card = CardFields /\ card.key \in 1 .. loads[p] /\ ShownOK(card)
        /\ call.kind = "comment" =>
             /\ Saved(call.post, call.comment)
             /\ \A card \in Elements(old) :
                  SameCard(card, call) => call.comment \notin Elements(card.list)
    BY <2>2, <2>3, <2>4 DEF FeedInv, PageOK, CardsOK, ActOK, Accepted
  <2>6. IsSeq(new) /\ Len(new) = Len(old)
    <3>1. Len(old) \in Nat
      BY <2>5 DEF IsSeq
    <3>2. DOMAIN new = 1 .. Len(old) /\ new = [i \in 1 .. Len(old) |-> new[i]]
      BY <2>3
    <3> QED
      BY <3>1, <3>2, MadeShape
  <2>7. ASSUME NEW card \in Elements(old), SameCard(card, call)
        PROVE  LET u == Updated(card, call) IN
               DOMAIN u = CardFields /\ u.key = card.key /\ ShownOK(u)
    <3>1. DOMAIN card = CardFields /\ ShownOK(card)
      BY <2>5
    <3>2. CASE call.kind = "comment"
      <4>1. PICK list : list = Append(card.list, call.comment)
        OBVIOUS
      <4>2. PICK u : u = Updated(card, call)
        OBVIOUS
      <4>3. u = [card EXCEPT !.list = list, !.count = call.count]
        BY <3>2, <4>1, <4>2 DEF Updated
      <4>4. /\ DOMAIN u = CardFields /\ u.key = card.key /\ u.post = card.post
            /\ u.stamp = card.stamp /\ u.list = list
        BY <3>1, <4>3 DEF CardFields
      <4>5. IsSeq(card.list) /\ Distinct(card.list) /\ Len(card.list) \in Nat
        BY <3>1 DEF ShownOK, IsSeq
      <4>6. /\ IsSeq(list) /\ Len(list) = Len(card.list) + 1
            /\ \A i \in 1 .. Len(card.list) + 1 :
                 list[i] = IF i = Len(card.list) + 1 THEN call.comment ELSE card.list[i]
        BY <4>1, <4>5, AppendShape
      <4>7. call.comment \notin Elements(card.list) /\ Saved(card.post, call.comment)
        BY <2>5, <2>7, <3>2 DEF SameCard
      <4>8. \A i \in 1 .. Len(list) :
              \/ i = Len(card.list) + 1 /\ list[i] = call.comment
              \/ i \in 1 .. Len(card.list) /\ list[i] = card.list[i] /\ list[i] \in Elements(card.list)
        BY <4>5, <4>6 DEF Elements
      <4>9. Distinct(list)
        BY <4>5, <4>7, <4>8 DEF Distinct
      <4>10. \A id \in Elements(list) : Saved(card.post, id)
        BY <3>1, <4>7, <4>8 DEF ShownOK, Elements
      <4>11. ShownOK(u)
        BY <3>1, <4>4, <4>6, <4>9, <4>10 DEF ShownOK
      <4> QED
        BY <4>2, <4>4, <4>11
    <3>3. CASE call.kind = "like"
      <4>1. PICK u : u = Updated(card, call)
        OBVIOUS
      <4>2. u = [card EXCEPT !.likes = call.count, !.liked = call.liked]
        BY <3>3, <4>1 DEF Updated
      <4>3. /\ DOMAIN u = CardFields /\ u.key = card.key /\ u.post = card.post
            /\ u.stamp = card.stamp /\ u.list = card.list
        BY <3>1, <4>2 DEF CardFields
      <4>4. ShownOK(u)
        BY <3>1, <4>3 DEF ShownOK
      <4> QED
        BY <4>1, <4>3, <4>4
    <3>4. CASE call.kind = "publish"
      BY <3>1, <3>4 DEF Updated
    <3> QED
      BY <2>5, <3>2, <3>3, <3>4
  <2>8. ASSUME NEW card \in Elements(new)
        PROVE  /\ DOMAIN card = CardFields /\ card.key \in 1 .. loads[p] /\ ShownOK(card)
               /\ \E was \in Elements(old) : card.key = was.key
    <3>1. PICK i \in 1 .. Len(old) : card = new[i]
      BY <2>6 DEF Elements
    <3>2. old[i] \in Elements(old)
      BY DEF Elements
    <3>3. card = IF SameCard(old[i], call) THEN Updated(old[i], call) ELSE old[i]
      BY <2>3, <3>1
    <3>4. DOMAIN card = CardFields /\ card.key = old[i].key /\ ShownOK(card)
      BY <2>5, <2>7, <3>2, <3>3
    <3> QED
      BY <2>5, <3>2, <3>4
  <2>9. cards'[p] = new
    BY <1>2, <2>3
  <2>10. CardsOK(p)'
    <3>1. \A card \in Elements(new) : ShownOK(card)'
      BY <2>8, ShownStays
    <3> QED
      BY <1>1, <2>6, <2>8, <2>9, <3>1 DEF CardsOK, IsSeq, Elements
  <2>11. LoadsOK(p)'
    <3>1. ASSUME NEW t \in LoadSlots, NEW other \in InSlot(p, t), NEW card \in Elements(cards'[p])
          PROVE  card.key # other.key
      <4>1. \A c \in Elements(old) : c.key # other.key
        BY <2>2 DEF FeedInv, PageOK, LoadsOK
      <4> QED
        BY <2>8, <2>9, <4>1
    <3> QED
      BY <1>1, <3>1, ReceiveLoads
  <2>12. ActOK(p)'
    <3>1. InSlot(p, "act")' = {}
      BY <1>1, SlotReceived
    <3> QED
      BY <3>1 DEF ActOK
  <2> QED
    BY <1>1, <2>3, <2>10, <2>11, <2>12, ReceivePage DEF PageOK
<1> QED
  BY <1>3, <1>4

LEMMA FeedBrowse ==
    ASSUME TableInv, CallsShape, FeedInv, [Next]_vars, NEW p \in Pages, Browse(p)
    PROVE  FeedInv'
<1>1. CASE Login(p)
  BY <1>1, FeedKeeps DEF Login
<1>2. ASSUME NEW s \in Slots, NEW query, BeginLoad(p, s, query) PROVE FeedInv'
  BY <1>2, FeedBeginLoad
<1>3. ASSUME NEW s \in Slots, EndLoad(p, s) PROVE FeedInv'
  BY <1>3, FeedEndLoad
<1>4. ASSUME NEW kind \in {"like", "comment"}, BeginAction(p, kind) PROVE FeedInv'
  <2>1. PICK i \in 1 .. Len(cards[p]) :
          Send(p, "act", Call(kind, cards[p][i].post, cards[p][i].stamp, cards[p][i].key, "all"))
    BY <1>4 DEF BeginAction
  <2>2. PICK card, new : card = cards[p][i] /\ new = Call(kind, card.post, card.stamp, card.key, "all")
    OBVIOUS
  <2>3. Send(p, "act", new) /\ UNCHANGED page
    BY <1>4, <2>1, <2>2 DEF BeginAction
  <2>4. /\ new.kind = kind /\ new.stage = "sent" /\ new.post = card.post
        /\ new.stamp = card.stamp /\ new.key = card.key
    BY <2>2 DEF Call
  <2>5. card \in Elements(cards[p])
    BY <2>2 DEF Elements
  <2> QED
    BY <1>4, <2>3, <2>4, <2>5, FeedSends
<1>5. CASE BeginPublish(p)
  <2>1. PICK new : new = Call("publish", 0, 0, 0, "all")
    OBVIOUS
  <2>2. new.kind = "publish" /\ new.stage = "sent"
    BY <2>1 DEF Call
  <2>3. Send(p, "act", new) /\ UNCHANGED page
    BY <1>5, <2>1 DEF BeginPublish
  <2> QED
    BY <2>2, <2>3, FeedSends
<1>6. CASE EndAction(p)
  BY <1>6, FeedEndAction
<1> QED
  BY <1>1, <1>2, <1>3, <1>4, <1>5, <1>6 DEF Browse

LEMMA FeedStep == FeedInv /\ TableInv /\ MediaInv /\ [Next]_vars => FeedInv'
<1> SUFFICES ASSUME FeedInv, TableInv, MediaInv, [Next]_vars PROVE FeedInv'
  OBVIOUS
<1>1. CallsShape
  BY DEF MediaInv
<1>2. CASE UNCHANGED vars
  BY <1>1, <1>2, FeedKeeps DEF vars, server, page
<1> QED
  BY <1>1, <1>2, FeedServe, FeedBrowse DEF Next

LEMMA FeedInit == Init => FeedInv
<1> SUFFICES ASSUME Init PROVE FeedInv
  OBVIOUS
<1>1. /\ cards = [p \in Pages |-> <<>>] /\ loads = [p \in Pages |-> 0] /\ sent = 0
      /\ comments = {} /\ calls = [p \in Pages |-> [s \in Slots |-> None]]
  BY DEF Init, ServerInit
<1>2. PageInv
  BY <1>1 DEF PageInv
<1>3. CommentsReachTheirPost
  BY <1>1 DEF CommentsReachTheirPost
<1>4. ASSUME NEW p \in Pages PROVE PageOK(p)
  <2>1. \A s \in Slots : InSlot(p, s) = {}
    BY <1>1 DEF InSlot
  <2>2. cards[p] = <<>>
    BY <1>1
  <2> QED
    BY <2>1, <2>2, NoCards, SlotsAssumption DEF PageOK, CardsOK, LoadsOK, ActOK, LoadSlots
<1> QED
  BY <1>2, <1>3, <1>4 DEF FeedInv

LEMMA FeedInvariant == Spec => []FeedInv
  BY TableInit, TableStep, MediaInit, MediaStep, FeedInit, FeedStep, PTL DEF Spec

(* repository.py comment(), main.py create_comment(): a page that is still  *)
(* open after a reset cannot comment on a later post by an old number.      *)
THEOREM CommentsLandWhereWritten == Spec => []CommentsReachTheirPost
<1>1. FeedInv => CommentsReachTheirPost
  BY DEF FeedInv
<1> QED
  BY FeedInvariant, <1>1, PTL

(* feed.js: the reply that reports a comment and a reload that already      *)
(* brings it never add up to the same comment twice on a card.              *)
THEOREM CommentsAreShownOnce == Spec => []NoCommentTwice
<1>1. FeedInv => NoCommentTwice
  BY DEF FeedInv, PageOK, CardsOK, ShownOK, Distinct, Elements, NoCommentTwice
<1> QED
  BY FeedInvariant, <1>1, PTL

(* feed.js and list_posts(): a card shows no comment of another post and    *)
(* none that was not saved, as long as its post is there.                   *)
THEOREM ShownIsSaved == Spec => []ShownCommentsAreSaved
<1>1. FeedInv => ShownCommentsAreSaved
  <2> SUFFICES ASSUME FeedInv, NEW p \in Pages, NEW i \in 1 .. Len(cards[p]),
                      cards[p][i].post \in DOMAIN posts,
                      NEW j \in 1 .. Len(cards[p][i].list)
               PROVE  \E c \in comments : c.id = cards[p][i].list[j] /\ c.post = cards[p][i].post
    BY DEF ShownCommentsAreSaved
  <2>1. cards[p][i] \in Elements(cards[p])
    BY DEF Elements
  <2>2. ShownOK(cards[p][i])
    BY <2>1 DEF FeedInv, PageOK, CardsOK
  <2>3. cards[p][i].list[j] \in Elements(cards[p][i].list)
    BY DEF Elements
  <2> QED
    BY <2>2, <2>3 DEF ShownOK, Saved
<1> QED
  BY FeedInvariant, <1>1, PTL

-----------------------------------------------------------------------------
(* Types *)

Stages == {"sent", "reading", "stored", "replied"}

TypeInv ==
    /\ likes \subseteq (DOMAIN posts) \X Pages /\ sessions \subseteq Pages
    /\ \A p \in Pages, s \in Slots : \A call \in InSlot(p, s) : call.stage \in Stages
    /\ message \in [Pages -> {"login", "open", "loading", "error", "empty", "hidden"}]
    /\ search \in [Pages -> Queries]

LEMMA TypeLikes ==
    ASSUME TypeInv, [Next]_vars
    PROVE  likes' \subseteq (DOMAIN posts') \X Pages
<1>1. CASE likes' = likes /\ DOMAIN posts \subseteq DOMAIN posts'
  BY <1>1 DEF TypeInv
<1>2. ASSUME NEW p \in Pages, NEW s \in Slots, ToggleLike(p, s)
      PROVE  likes' \subseteq (DOMAIN posts') \X Pages
  <2>1. posts' = posts
    BY <1>2 DEF ToggleLike
  <2>2. \A like \in likes' : like \in likes \/ (like = <<calls[p][s].post, p>> /\ calls[p][s].post \in DOMAIN posts)
    BY <1>2 DEF ToggleLike, LikeOf
  <2> QED
    BY <2>1, <2>2 DEF TypeInv
<1>3. ASSUME NEW p \in Pages, Browse(p) PROVE UNCHANGED store
  BY <1>3 DEF Browse, Login, BeginLoad, EndLoad, BeginAction, BeginPublish, EndAction, Send, Receive
<1>4. ASSUME NEW p \in Pages, NEW s \in Slots,
             \/ Unauthorised(p, s) \/ ReadRows(p, s) \/ ReadPost(p, s) \/ ListPosts(p, s)
             \/ StoreImage(p, s) \/ FailPublish(p, s)
      PROVE  UNCHANGED store
  BY <1>4 DEF Unauthorised, ReadRows, ReadPost, ListPosts, StoreImage, FailPublish
<1>5. ASSUME NEW p \in Pages, NEW s \in Slots, CreatePost(p, s)
      PROVE  likes' = likes /\ DOMAIN posts \subseteq DOMAIN posts'
  BY <1>5 DEF CreatePost, Insert
<1>6. ASSUME NEW p \in Pages, NEW s \in Slots, CreateComment(p, s)
      PROVE  likes' = likes /\ DOMAIN posts' = DOMAIN posts
  BY <1>6 DEF CreateComment, Increment
<1>7. ASSUME RemoveMedia \/ Restart \/ \E p \in Pages : EndSession(p) PROVE UNCHANGED store
  BY <1>7 DEF RemoveMedia, Restart, EndSession
<1>8. ASSUME Reset PROVE likes' = {}
  BY <1>8 DEF Reset
<1>9. CASE UNCHANGED store
  BY <1>1, <1>9 DEF store
<1> QED
  BY <1>1, <1>2, <1>3, <1>4, <1>5, <1>6, <1>7, <1>8, <1>9 DEF Next, Serve, vars, server

LEMMA TypeSessions ==
    ASSUME TypeInv, [Next]_vars
    PROVE  sessions' \subseteq Pages
<1>1. CASE UNCHANGED access
  BY <1>1 DEF TypeInv, access
<1>2. ASSUME NEW p \in Pages, NEW s \in Slots,
             \/ Unauthorised(p, s) \/ ReadRows(p, s) \/ ReadPost(p, s) \/ ListPosts(p, s)
             \/ ToggleLike(p, s) \/ CreateComment(p, s)
             \/ StoreImage(p, s) \/ CreatePost(p, s) \/ FailPublish(p, s)
      PROVE  UNCHANGED access
  BY <1>2 DEF Unauthorised, ReadRows, ReadPost, ListPosts, ToggleLike, CreateComment, StoreImage,
              CreatePost, FailPublish
<1>3. ASSUME NEW p \in Pages, Browse(p) PROVE sessions' \subseteq sessions \cup {p}
  BY <1>3 DEF Browse, Login, BeginLoad, EndLoad, BeginAction, BeginPublish, EndAction, Send,
              Receive, access
<1>4. ASSUME Reset \/ RemoveMedia PROVE UNCHANGED access
  BY <1>4 DEF Reset, RemoveMedia
<1>5. ASSUME Restart \/ \E p \in Pages : EndSession(p) PROVE sessions' \subseteq sessions
  BY <1>5 DEF Restart, EndSession
<1> QED
  BY <1>1, <1>2, <1>3, <1>4, <1>5 DEF Next, Serve, vars, server, TypeInv

LEMMA TypePages ==
    ASSUME TypeInv, [Next]_vars
    PROVE  /\ message' \in [Pages -> {"login", "open", "loading", "error", "empty", "hidden"}]
           /\ search' \in [Pages -> Queries]
<1>1. CASE UNCHANGED page
  BY <1>1 DEF TypeInv, page
<1>2. ASSUME NEW p \in Pages, Login(p)
      PROVE  message' = [message EXCEPT ![p] = "open"] /\ search' = search
  BY <1>2 DEF Login
<1>3. ASSUME NEW p \in Pages, NEW s \in Slots, NEW query \in Queries, BeginLoad(p, s, query)
      PROVE  /\ message' = [message EXCEPT ![p] = "loading"]
             /\ search' = [search EXCEPT ![p] = query]
  BY <1>3 DEF BeginLoad
<1>4. ASSUME NEW p \in Pages, NEW s \in Slots, EndLoad(p, s)
      PROVE  /\ \/ message' = message
                \/ \E m \in {"login", "error", "empty", "hidden"} :
                     message' = [message EXCEPT ![p] = m]
             /\ search' = search
  BY <1>4 DEF EndLoad
<1>5. ASSUME NEW p \in Pages, NEW kind, BeginAction(p, kind) PROVE UNCHANGED page
  BY <1>5 DEF BeginAction
<1>6. ASSUME NEW p \in Pages, BeginPublish(p) PROVE UNCHANGED page
  BY <1>6 DEF BeginPublish
<1>7. ASSUME NEW p \in Pages, EndAction(p) PROVE message' = message /\ search' = search
  BY <1>7 DEF EndAction
<1> QED
  BY <1>1, <1>2, <1>3, <1>4, <1>5, <1>6, <1>7 DEF Next, Browse, vars, TypeInv

LEMMA StageKept ==
    ASSUME CallsShape, TypeInv, NEW p \in Pages, NEW s \in Slots,
           \/ Unauthorised(p, s) \/ ReadRows(p, s) \/ ReadPost(p, s) \/ ListPosts(p, s)
           \/ ToggleLike(p, s) \/ CreateComment(p, s)
           \/ StoreImage(p, s) \/ CreatePost(p, s) \/ FailPublish(p, s)
    PROVE  calls'[p][s].stage \in Stages
<1> DEFINE old == calls[p][s]
<1>1. old # None /\ DOMAIN old = Fields
  BY DEF CallsShape, CallOK, Unauthorised, ReadRows, ReadPost, ListPosts, ToggleLike,
         CreateComment, StoreImage, CreatePost, FailPublish, Pending
<1>2. ASSUME NEW call, NEW status, DOMAIN call = Fields, Reply(p, s, call, status)
      PROVE  calls'[p][s].stage \in Stages
  BY <1>2, ReplyIs DEF Stages
<1>3. CASE Unauthorised(p, s) \/ CreatePost(p, s) \/ FailPublish(p, s)
  BY <1>1, <1>2, <1>3 DEF Unauthorised, CreatePost, FailPublish
<1>4. CASE ReadRows(p, s)
  <2>1. \E rows : calls'[p][s] = [old EXCEPT !.stage = "reading", !.rows = rows]
    BY <1>4 DEF ReadRows, CallsShape
  <2> QED
    BY <1>1, <2>1 DEF Fields, Call, Stages
<1>5. CASE ReadPost(p, s)
  <2>1. PICK view : calls'[p][s] = [old EXCEPT !.view = view]
    <3>1. PICK view : calls' = [calls EXCEPT ![p][s].view = view]
      BY <1>5 DEF ReadPost
    <3> QED
      BY <3>1 DEF CallsShape
  <2> QED
    BY <1>1, <1>5, <2>1 DEF ReadPost, Pending, Fields, Call, Stages
<1>6. CASE ListPosts(p, s)
  <2>1. PICK view : Reply(p, s, [old EXCEPT !.rows = <<>>, !.view = view], 200)
    BY <1>1, <1>6 DEF ListPosts, Fields, Call
  <2>2. DOMAIN [old EXCEPT !.rows = <<>>, !.view = view] = Fields
    BY <1>1
  <2> QED
    BY <1>2, <2>1, <2>2
<1>7. CASE ToggleLike(p, s)
  <2>1. CASE old.post \in DOMAIN posts
    <3>1. PICK liked, count : Reply(p, s, [old EXCEPT !.liked = liked, !.count = count], 200)
      BY <1>7, <2>1 DEF ToggleLike
    <3>2. DOMAIN [old EXCEPT !.liked = liked, !.count = count] = Fields
      BY <1>1
    <3> QED
      BY <1>2, <3>1, <3>2
  <2>2. CASE old.post \notin DOMAIN posts
    BY <1>1, <1>2, <1>7, <2>2 DEF ToggleLike
  <2> QED
    BY <2>1, <2>2
<1>8. CASE CreateComment(p, s)
  <2>1. CASE old.post \in DOMAIN posts
    <3>1. PICK comment, count : Reply(p, s, [old EXCEPT !.comment = comment, !.count = count], 201)
      BY <1>8, <2>1 DEF CreateComment
    <3>2. DOMAIN [old EXCEPT !.comment = comment, !.count = count] = Fields
      BY <1>1
    <3> QED
      BY <1>2, <3>1, <3>2
  <2>2. CASE old.post \notin DOMAIN posts
    BY <1>1, <1>2, <1>8, <2>2 DEF CreateComment
  <2> QED
    BY <2>1, <2>2
<1>9. CASE StoreImage(p, s)
  <2>1. CASE calls' = [calls EXCEPT ![p][s] = Stored(issued + 1)]
    <3>1. calls'[p][s] = Stored(issued + 1)
      BY <2>1 DEF CallsShape
    <3> QED
      BY <3>1 DEF Stored, Call, Stages
  <2> QED
    BY <1>1, <1>2, <1>9, <2>1 DEF StoreImage
<1> QED
  BY <1>3, <1>4, <1>5, <1>6, <1>7, <1>8, <1>9

LEMMA TypeStages ==
    ASSUME CallsShape, TypeInv, [Next]_vars
    PROVE  \A q \in Pages, t \in Slots : \A call \in InSlot(q, t)' : call.stage \in Stages
<1> SUFFICES ASSUME NEW q \in Pages, NEW t \in Slots, NEW call \in InSlot(q, t)',
                    call \notin InSlot(q, t)
             PROVE  call.stage \in Stages
  BY DEF TypeInv
<1>1. call = calls'[q][t] /\ call # None /\ calls'[q][t] # calls[q][t]
  BY DEF InSlot
<1>2. ASSUME NEW p \in Pages, NEW s \in Slots,
             \/ Unauthorised(p, s) \/ ReadRows(p, s) \/ ReadPost(p, s) \/ ListPosts(p, s)
             \/ ToggleLike(p, s) \/ CreateComment(p, s)
             \/ StoreImage(p, s) \/ CreatePost(p, s) \/ FailPublish(p, s)
      PROVE  call.stage \in Stages
  <2>1. q = p /\ t = s
    BY <1>1, <1>2, OwnCallOnly
  <2> QED
    BY <1>1, <1>2, <2>1, StageKept
<1>3. ASSUME NEW p \in Pages, NEW s \in Slots, NEW new, Send(p, s, new), new.stage = "sent"
      PROVE  call.stage \in Stages
  BY <1>3, SlotSent DEF Stages
<1>4. ASSUME NEW p \in Pages, NEW s \in Slots, Receive(p, s) PROVE FALSE
  BY <1>4, SlotReceived
<1>5. ASSUME NEW p \in Pages, Browse(p) PROVE call.stage \in Stages
  <2>1. ASSUME NEW kind, NEW post, NEW stamp, NEW key, NEW query
        PROVE  Call(kind, post, stamp, key, query).stage = "sent"
    BY DEF Call
  <2>2. CASE Login(p)
    BY <1>1, <2>2 DEF Login
  <2>3. ASSUME NEW s \in Slots, NEW query, BeginLoad(p, s, query) PROVE call.stage \in Stages
    BY <1>3, <2>1, <2>3 DEF BeginLoad
  <2>4. ASSUME NEW s \in Slots, EndLoad(p, s) PROVE call.stage \in Stages
    <3>1. Receive(p, s)
      BY <2>4 DEF EndLoad
    <3> QED
      BY <1>4, <3>1
  <2>5. ASSUME NEW kind, BeginAction(p, kind) PROVE call.stage \in Stages
    <3>1. PICK post, stamp, key : Send(p, "act", Call(kind, post, stamp, key, "all"))
      BY <2>5 DEF BeginAction
    <3>2. PICK new : new = Call(kind, post, stamp, key, "all")
      OBVIOUS
    <3>3. new.stage = "sent"
      BY <2>1, <3>2
    <3> QED
      BY <1>3, <3>1, <3>2, <3>3, SlotsAssumption
  <2>6. CASE BeginPublish(p)
    BY <1>3, <2>1, <2>6, SlotsAssumption DEF BeginPublish
  <2>7. CASE EndAction(p)
    BY <1>4, <2>7, SlotsAssumption DEF EndAction
  <2> QED
    BY <1>5, <2>2, <2>3, <2>4, <2>5, <2>6, <2>7 DEF Browse
<1>6. CASE Restart
  <2>1. PICK old : old = calls[q][t]
    OBVIOUS
  <2>2. call = IF old = None \/ old.stage = "replied" THEN old
               ELSE [old EXCEPT !.stage = "replied", !.status = 0]
    BY <1>1, <1>6, <2>1 DEF Restart
  <2>3. old # None
    BY <1>1, <2>2
  <2>4. DOMAIN old = Fields /\ call = [old EXCEPT !.stage = "replied", !.status = 0]
    BY <1>1, <2>1, <2>2, <2>3 DEF CallsShape, CallOK
  <2> QED
    BY <2>4 DEF Fields, Call, Stages
<1>7. ASSUME Reset \/ RemoveMedia \/ \E p \in Pages : EndSession(p) PROVE calls' = calls
  BY <1>7 DEF Reset, RemoveMedia, EndSession
<1> QED
  BY <1>1, <1>2, <1>5, <1>6, <1>7 DEF Next, Serve, vars, server

LEMMA TypeStep == TypeInv /\ MediaInv /\ [Next]_vars => TypeInv'
<1> SUFFICES ASSUME TypeInv, MediaInv, [Next]_vars PROVE TypeInv'
  OBVIOUS
<1>1. \A q \in Pages, t \in Slots : \A call \in InSlot(q, t)' : call.stage \in Stages
  BY TypeStages DEF MediaInv
<1> QED
  BY <1>1, TypeLikes, TypeSessions, TypePages DEF TypeInv, Stages

LEMMA FeedTypeInit == Init => TypeInv
<1> SUFFICES ASSUME Init PROVE TypeInv
  OBVIOUS
<1>1. \A p \in Pages, s \in Slots : InSlot(p, s) = {}
  BY DEF Init, ServerInit, InSlot
<1> QED
  BY <1>1 DEF Init, ServerInit, TypeInv, Queries

(* Every table, session, call and page of the community stays what the code *)
(* takes it for.                                                            *)
THEOREM FeedTypes == Spec => []TypeOK
<1>1. TypeInv /\ TableInv /\ MediaInv /\ FeedInv => TypeOK
  <2> SUFFICES ASSUME TypeInv, TableInv, MediaInv, FeedInv PROVE TypeOK
    OBVIOUS
  <2>1. likes \subseteq (1 .. lastPost) \X Pages
    BY DEF TypeInv, TableInv
  <2>2. \A p \in Pages, s \in Slots : calls[p][s] # None => calls[p][s].stage \in Stages
    BY DEF TypeInv, InSlot
  <2>3. StoreTypeOK
    BY <2>1, <2>2 DEF StoreTypeOK, TypeInv, TableInv, MediaInv, FilesInv, Stages
  <2>4. \A p \in Pages : loads[p] \in 0 .. sent /\ search[p] \in Queries
    BY DEF FeedInv, PageInv, TypeInv
  <2> QED
    BY <2>3, <2>4 DEF TypeOK, TypeInv
<1> QED
  BY TableInit, TableStep, MediaInit, MediaStep, FeedTypeInit, TypeStep, FeedInvariant, <1>1,
     PTL DEF Spec
=============================================================================
