------------------------- MODULE AvatarStorageProofs -------------------------
(***************************************************************************)
(* Proofs about AvatarStorage, for any number of requests that work on one *)
(* account and for any set of variants.                                    *)
(***************************************************************************)
EXTENDS AvatarStorage, TLAPS

(* Request q has written the row or seen that there is nothing to write.   *)
Settled(q) == task[q].pc = "done" \/ (task[q].pc = "write" /\ task[q].save = "none")

LEMMA DeletedIsRestoredMeans ==
    DeletedIsRestored <=> \A q \in Requests :
      Deletes(q, avatar) /\ avatar # None /\ Settled(q) => Restored(avatar)
BY DEF DeletedIsRestored, Settled

(* A step of request r, whose handler then has the state h: what has been  *)
(* loaded and what has failed stays as it is, and so does who is done.     *)
Becomes(r, h) ==
    /\ task' = [task EXCEPT ![r] = h]
    /\ \/ /\ task[r] = NotCome /\ h.seen = avatar
       \/ /\ task[r] # NotCome
          /\ h.kind = task[r].kind /\ h.seen = task[r].seen /\ h.new = task[r].new
          /\ task[r].broken \subseteq h.broken
    /\ task[r].pc = "done" => h.pc = "done" /\ h.save = task[r].save
    /\ h.pc = "erase" => h.seen # None
    /\ TaskFits(r)'

(* What it does to the objects.                                            *)
Stores(r, h) ==
    /\ bucket' \subseteq Requests \X Keys
    /\ \A o \in bucket' \ bucket :
         /\ task[r] # NotCome /\ o[1] = r /\ h.kind \in {"upload", "image"}
         /\ \/ o[2] = Original /\ task[r].pc = "put" /\ h.pc = "generate"
            \/ o[2] \in task[r].calls /\ h.pc = task[r].pc
    /\ \A o \in bucket \ bucket' : task[r] # NotCome /\ Deletes(r, o[1])
    /\ h.kind \in {"upload", "image"} /\ h.pc \notin {"put", "failed"} =>
         \/ <<r, Original>> \in bucket'
         \/ task[r].pc \notin {"idle", "put", "failed"}
    /\ \A k \in Keys :
         /\ h.seen # None /\ h.kind \in {"delete", "remove"}
         /\ k \notin h.calls /\ <<h.seen, k>> \in bucket'
         => \/ k \in h.broken
            \/ /\ task[r] # NotCome /\ k \notin task[r].calls /\ k \notin task[r].broken
               /\ <<h.seen, k>> \in bucket

(* What it does to the row.                                                *)
Saves(r, h) ==
    /\ exists' \in BOOLEAN /\ avatar' \in Image
    /\ exists' => exists \/ (h.pc = "done" /\ h.kind = "password" /\ h.save = "insert")
    /\ ~exists' => /\ avatar' = None
                   /\ ~exists \/ (h.pc = "done" /\ h.kind = "remove")
    /\ h.pc = "done" /\ h.kind = "remove" /\ exists' => task[r].pc = "done"
    /\ \/ avatar' = avatar
       \/ /\ avatar' = None /\ h.pc = "done"
          /\ task[r] # NotCome /\ task[r].pc # "done"
          /\ h.save # "none" \/ h.kind = "remove"
       \/ /\ avatar' = h.new /\ task[r] # NotCome /\ task[r].pc # "done"
          /\ h.pc = "done" /\ h.save # "none"
    /\ h.pc = "done" /\ h.kind = "upload" =>
         task[r].pc = "done" \/ avatar' = r \/ ~exists
    /\ h.kind \in {"delete", "remove"} /\ h.seen # None /\ Settled(r)' =>
         (task[r] # NotCome /\ Settled(r)) \/ avatar' = None

LEMMA TaskMoves ==
    ASSUME Inv, NEW r \in Requests, NEW h \in Task, Becomes(r, h), Stores(r, h), Saves(r, h)
    PROVE  Inv'
<1> USE NoneIsNoImage, OriginalIsNoVariant
<1>t. /\ task \in [Requests -> {NotCome} \cup Task] /\ bucket \subseteq Requests \X Keys
      /\ exists \in BOOLEAN /\ avatar \in Image
      /\ \A q \in Requests : task[q].pc = "erase" => task[q].seen # None
  BY DEF Inv, TypeOK
<1>j. /\ task'[r] = h /\ \A q \in Requests \ {r} : task'[q] = task[q]
      /\ task' \in [Requests -> {NotCome} \cup Task]
  BY <1>t DEF Becomes
<1>h. h # NotCome /\ h.pc # "idle" /\ (task[r] # NotCome => task[r].pc # "idle" /\ task[r] \in Task)
  BY <1>t DEF NotCome, Task
<1>f. /\ \A q \in Requests : TaskFits(q)
      /\ ImagesFit /\ AccountFits /\ ErasedAreGone /\ DeletedIsRestored
      /\ LeftoversExplained /\ AccountStaysDeleted
  BY DEF Inv
<1>1. TypeOK'
  BY <1>t, <1>j DEF TypeOK, Becomes, Stores, Saves
<1>2. ASSUME NEW q \in Requests PROVE TaskFits(q)'
  <2>1. CASE q = r
    BY <2>1 DEF Becomes
  <2>2. CASE q # r
    BY <2>2, <1>j, <1>f DEF TaskFits
  <2> QED
    BY <2>1, <2>2
<1>d. \A q \in Requests : task[q].pc = "done" =>
        /\ task'[q].pc = "done" /\ task'[q].kind = task[q].kind /\ task'[q].save = task[q].save
        /\ task'[q].seen = task[q].seen /\ task'[q].new = task[q].new
        /\ task[q].broken \subseteq task'[q].broken
  BY <1>j DEF Becomes, NotCome
<1>e. \A q \in Requests : \A i : Deletes(q, i) => Deletes(q, i)'
  BY <1>j, <1>h DEF Becomes, Deletes, NotCome
<1>p. \A i \in Requests : Published(i) => Published(i)'
  BY <1>d DEF Published
<1>g. \A q \in Requests : Deletes(q, avatar) /\ avatar # None => Published(avatar)
  BY <1>f DEF ImagesFit
<1>3. ImagesFit'
  <2>1. avatar' # None => Published(avatar)'
    <3>1. CASE avatar' = avatar
      BY <3>1, <1>f, <1>p, <1>t DEF ImagesFit, Image, Published
    <3>2. CASE /\ avatar' = h.new /\ task[r] # NotCome /\ h.pc = "done" /\ h.save # "none"
               /\ avatar' # None
      <4>1. TaskFits(r)'
        BY <1>2
      <4>2. CASE h.kind \in {"upload", "image"}
        BY <4>1, <4>2, <3>2, <1>j, <1>h DEF TaskFits, Published
      <4>3. CASE h.kind \in {"profile", "password"}
        <5>1. avatar' = task[r].seen
          BY <4>1, <4>3, <3>2, <1>j, <1>h DEF TaskFits, Becomes
        <5>2. Published(task[r].seen) /\ task[r].seen \in Image
          BY <5>1, <3>2, <1>f, <1>h DEF ImagesFit, Task
        <5>3. PICK i \in Requests : i = task[r].seen
          BY <5>1, <5>2, <3>2 DEF Image
        <5> QED
          BY <5>1, <5>2, <5>3, <1>p DEF Published
      <4> QED
        BY <4>1, <4>2, <4>3, <3>2, <1>j, <1>h DEF TaskFits, Task
    <3> QED
      BY <3>1, <3>2 DEF Saves
  <2>2. ASSUME NEW q \in Requests, task'[q].pc # "idle", task'[q].seen # None
        PROVE  Published(task[q].seen)'
    <3> DEFINE i == task'[q].seen
    <3>1. task[i].pc = "done" /\ task[i].kind = "upload"
      <4>1. CASE q = r /\ task[r] = NotCome
        BY <4>1, <2>2, <1>f, <1>j, <1>h DEF Becomes, ImagesFit, Published
      <4>2. CASE q = r /\ task[r] # NotCome
        BY <4>2, <2>2, <1>f, <1>j, <1>h DEF Becomes, ImagesFit, Published
      <4>3. CASE q # r
        BY <4>3, <2>2, <1>f, <1>j DEF ImagesFit, Published
      <4> QED
        BY <4>1, <4>2, <4>3
    <3>2. task'[q].seen \in Requests
      BY <2>2, <1>1 DEF TypeOK, Task, Image, NotCome
    <3> QED
      BY <3>1, <3>2, <1>d DEF Published
  <2>3. ASSUME NEW i \in Requests, task'[i].pc \notin {"idle", "put", "failed"},
               task'[i].kind \in {"upload", "image"}
        PROVE  <<i, Original>> \in bucket' \/ \E q \in Requests : Deletes(q, i)'
    <3>1. <<i, Original>> \in bucket' \/ task[i].pc \notin {"idle", "put", "failed"}
      BY <2>3, <1>j DEF Stores
    <3>2. ASSUME task[i].pc \notin {"idle", "put", "failed"}
          PROVE  <<i, Original>> \in bucket \/ \E q \in Requests : Deletes(q, i)
      BY <3>2, <2>3, <1>f, <1>j DEF ImagesFit, Becomes, NotCome
    <3>3. <<i, Original>> \in bucket /\ <<i, Original>> \notin bucket' => Deletes(r, i)
      BY DEF Stores
    <3> QED
      BY <3>1, <3>2, <3>3, <1>e
  <2>4. ASSUME NEW o \in bucket'
        PROVE  task'[o[1]].pc # "idle" /\ task'[o[1]].kind \in {"upload", "image"}
    <3>1. CASE o \in bucket
      BY <3>1, <1>t, <1>f, <1>j, <1>h DEF ImagesFit, Becomes, NotCome
    <3>2. CASE o \notin bucket
      BY <3>2, <1>j, <1>h DEF Stores
    <3> QED
      BY <3>1, <3>2
  <2> QED
    BY <2>1, <2>2, <2>3, <2>4 DEF ImagesFit, Published
<1>4. AccountFits'
  <2>1. ASSUME ~exists, NEW q \in Requests, task[q].pc = "done" /\ task[q].kind = "remove"
        PROVE  task'[q].pc = "done" /\ task'[q].kind = "remove"
    BY <2>1, <1>d
  <2> QED
    BY <2>1, <1>f, <1>j DEF AccountFits, Saves
<1>5. ErasedAreGone'
  <2> SUFFICES ASSUME NEW q \in Requests, NEW k \in Keys, NEW i \in Requests,
                      Deletes(q, i)', i = task'[q].seen, k \notin task'[q].calls,
                      <<i, k>> \in bucket', k \notin task'[q].broken
               PROVE  k # Original /\ task'[i].broken # {}
    <3>1. \A q \in Requests : task'[q].pc # "idle" /\ task'[q].seen # None =>
            task'[q].seen \in Requests
      BY <1>1 DEF TypeOK, Task, Image, NotCome
    <3> QED
      BY <3>1 DEF ErasedAreGone
  <2>s. task'[q].pc # "idle" /\ task'[q].kind \in {"delete", "remove"} /\ i # None
    BY DEF Deletes
  <2>1. CASE k # Original /\ task[i].broken # {} /\ task[i].pc = "done"
    BY <2>1, <1>d
  <2>2. CASE q = r
    <3>1. /\ task[r] # NotCome /\ k \notin task[r].calls /\ k \notin task[r].broken
          /\ <<i, k>> \in bucket
      BY <2>2, <2>s, <1>j DEF Stores
    <3>2. Deletes(r, i) /\ task[r].seen = i
      BY <3>1, <2>2, <2>s, <1>j, <1>h DEF Deletes, Becomes
    <3>3. k # Original /\ task[i].broken # {} /\ Published(i)
      BY <3>1, <3>2, <2>s, <1>f, <1>h DEF ErasedAreGone, ImagesFit
    <3> QED
      BY <3>3, <2>1 DEF Published
  <2>3. CASE q # r
    <3>1. Deletes(q, i) /\ task[q] = task'[q] /\ Published(i)
      BY <2>3, <2>s, <1>j, <1>f DEF Deletes, ImagesFit
    <3>2. CASE <<i, k>> \in bucket
      BY <3>1, <3>2, <2>1, <2>s, <1>f DEF ErasedAreGone, Published
    <3>3. CASE <<i, k>> \notin bucket
      <4>1. i = r /\ k \in task[r].calls
        BY <3>3, <3>1 DEF Stores, Published
      <4>2. TaskFits(r) /\ task[r].pc = "done" /\ task[r].kind = "upload"
        BY <4>1, <3>1, <1>f DEF Published
      <4>3. task[r].broken # {} /\ k \in Variants
        BY <4>1, <4>2 DEF TaskFits
      <4> QED
        BY <4>1, <4>2, <4>3, <2>1
    <3> QED
      BY <3>2, <3>3
  <2> QED
    BY <2>2, <2>3
<1>s. \A q \in Requests : Saved(q) => Saved(q)' /\ \A i : Deletes(q, i)' => Deletes(q, i)
  BY <1>d DEF Saved, Deletes
<1>6. DeletedIsRestored'
  <2> SUFFICES ASSUME NEW q \in Requests, Deletes(q, avatar)', avatar' # None, Settled(q)'
               PROVE  Restored(avatar)'
    BY DEF DeletedIsRestored, Settled
  <2>1. ASSUME Restored(avatar), avatar' = avatar PROVE Restored(avatar)'
    <3>1. PICK p \in Requests : /\ Saved(p) /\ task[p].kind \in {"profile", "password"}
                                /\ task[p].new = avatar
      BY <2>1 DEF Restored
    <3>2. Saved(p)' /\ task'[p].kind = task[p].kind /\ task'[p].new = task[p].new
      BY <3>1, <1>s, <1>d DEF Saved
    <3> QED
      BY <3>1, <3>2, <2>1 DEF Restored
  <2>2. CASE q = r
    <3>1. h.kind \in {"delete", "remove"} /\ h.seen = avatar'
      BY <2>2, <1>j DEF Deletes
    <3>2. task[r] # NotCome /\ Settled(r)
      BY <3>1, <2>2 DEF Saves
    <3>3. h.new = None
      BY <3>1, <1>2, <1>j, <1>h DEF TaskFits
    <3>4. avatar' = avatar /\ Deletes(r, avatar)
      BY <3>1, <3>2, <3>3, <1>h DEF Saves, Becomes, Deletes
    <3> QED
      BY <3>2, <3>4, <2>1, <1>f, DeletedIsRestoredMeans
  <2>3. CASE q # r
    <3>1. Deletes(q, avatar') /\ Settled(q) /\ Published(avatar')
      BY <2>3, <1>j, <1>f DEF Deletes, Settled, ImagesFit
    <3>2. CASE avatar' = avatar
      BY <3>1, <3>2, <2>1, <1>f, DeletedIsRestoredMeans
    <3>3. CASE avatar' = h.new /\ task[r] # NotCome /\ task[r].pc # "done" /\ h.pc = "done"
               /\ h.save # "none"
      <4>1. h.kind \notin {"upload", "image", "delete", "remove"}
        BY <3>1, <3>3, <1>2, <1>j, <1>h DEF TaskFits, Published
      <4>2. h.kind \in {"profile", "password"}
        BY <4>1 DEF Task
      <4> QED
        BY <4>2, <3>3, <1>j DEF Restored, Saved
    <3> QED
      BY <3>2, <3>3 DEF Saves
  <2> QED
    BY <2>2, <2>3
<1>7. LeftoversExplained'
  <2> SUFFICES ASSUME NEW i \in Requests, NEW k \in Keys, <<i, k>> \in bucket', avatar' # i
               PROVE  Explained(i, k)'
    BY DEF LeftoversExplained
  <2>i. task'[i].pc # "idle" /\ task'[i].kind \in {"upload", "image"}
    BY <1>3 DEF ImagesFit
  <2>b. task[i].pc = "done" /\ task[i].broken # {} /\ k # Original => Explained(i, k)'
    BY <1>d DEF Explained
  <2>o. /\ \A q \in Requests, v \in Keys :
             /\ Deletes(q, i)' /\ v \notin task'[q].calls /\ <<i, v>> \in bucket'
             => v \in task'[q].broken \/ (v # Original /\ task'[i].broken # {})
        /\ \A q \in Requests : Deletes(q, i)' /\ task'[q].pc = "done" => task'[q].calls = {}
    BY <1>2, <1>5, NoneIsNoImage DEF ErasedAreGone, Deletes, TaskFits
  <2>1. CASE <<i, k>> \notin bucket
    <3>1. /\ i = r /\ task[r] # NotCome
          /\ \/ k = Original /\ h.pc = "generate"
             \/ k \in task[r].calls /\ h.pc = task[r].pc
      BY <2>1 DEF Stores
    <3>2. CASE h.pc # "done"
      BY <3>1, <3>2, <1>j DEF Explained
    <3>3. CASE h.pc = "done"
      <4>1. k \in task[r].calls /\ task[r].pc = "done" /\ TaskFits(r) /\ h.kind = task[r].kind
        BY <3>1, <3>3, <1>f DEF Becomes
      <4>2. k \in Variants /\ task[r].broken # {}
        BY <4>1, <2>i, <3>1, <1>j DEF TaskFits
      <4> QED
        BY <4>1, <4>2, <3>1, <2>b
    <3> QED
      BY <3>2, <3>3
  <2>2. CASE <<i, k>> \in bucket /\ avatar # i
    <3>0. Explained(i, k) /\ task[i].pc # "idle" /\ task[i] # NotCome
      BY <2>2, <1>f DEF LeftoversExplained, ImagesFit, NotCome
    <3>1. CASE task[i].kind = "image"
      BY <3>0, <3>1, <1>j DEF Explained, Becomes
    <3>2. CASE task[i].pc # "done"
      <4>1. CASE task'[i].pc # "done" \/ task'[i].kind = "image"
        BY <4>1 DEF Explained
      <4>2. CASE task'[i].pc = "done" /\ task'[i].kind = "upload"
        <5>1. i = r /\ ~exists
          BY <4>2, <3>2, <1>j DEF Saves
        <5>2. PICK q \in Requests : task[q].pc = "done" /\ task[q].kind = "remove"
          BY <5>1, <1>f DEF AccountFits
        <5>3. ~Deletes(q, i)
          BY <3>2, <1>f, NoneIsNoImage DEF ImagesFit, Deletes, Published
        <5>4. q # i /\ task'[q].pc = "done" /\ task'[q].kind = "remove" /\ ~Deletes(q, i)'
          BY <5>2, <5>3, <3>2, <1>d DEF Deletes
        <5> QED
          BY <5>4 DEF Explained
      <4> QED
        BY <4>1, <4>2, <2>i
    <3>3. CASE \E q \in Requests \ {i} : Saved(q) /\ ~Deletes(q, i)
      BY <3>3, <1>s DEF Explained
    <3>4. CASE \E q \in Requests \ {i} :
                 task[q].pc = "done" /\ task[q].kind = "remove" /\ ~Deletes(q, i)
      BY <3>4, <1>d DEF Explained, Deletes
    <3>5. CASE \E q \in Requests \ {i} :
                 Deletes(q, i) /\ (task[q].pc # "done" \/ k \in task[q].broken)
      <4>1. PICK q \in Requests \ {i} :
                 Deletes(q, i) /\ (task[q].pc # "done" \/ k \in task[q].broken)
        BY <3>5
      <4>2. Deletes(q, i)'
        BY <4>1, <1>e
      <4>3. CASE task'[q].pc # "done"
        BY <4>1, <4>2, <4>3 DEF Explained
      <4>4. CASE task'[q].pc = "done"
        BY <4>1, <4>2, <4>4, <2>o DEF Explained
      <4> QED
        BY <4>3, <4>4
    <3>6. CASE k # Original /\ task[i].broken # {} /\ task[i].pc = "done"
      BY <3>6, <2>b
    <3> QED
      BY <3>0, <3>1, <3>2, <3>3, <3>4, <3>5, <3>6 DEF Explained
  <2>3. CASE avatar = i
    <3>1. task[i].pc = "done"
      BY <2>3, <1>f, NoneIsNoImage DEF ImagesFit, Published
    <3>2. /\ r # i /\ h.pc = "done"
          /\ h.save # "none" \/ h.kind = "remove"
      BY <2>3, <3>1 DEF Saves
    <3>3. CASE ~Deletes(r, i)'
      BY <3>2, <3>3, <1>j DEF Explained, Saved
    <3>4. CASE Deletes(r, i)'
      BY <3>2, <3>4, <2>o, <1>j DEF Explained
    <3> QED
      BY <3>3, <3>4
  <2> QED
    BY <2>1, <2>2, <2>3
<1>8. AccountStaysDeleted'
  <2> SUFFICES ASSUME exists', NEW q \in Requests, task'[q].pc = "done", task'[q].kind = "remove"
               PROVE  \E p \in Requests : Saved(p)' /\ task'[p].kind = "password"
                                          /\ task'[p].save = "insert"
    BY DEF AccountStaysDeleted
  <2>1. CASE exists
    <3>1. task[q].pc = "done" /\ task[q].kind = "remove"
      BY <1>j, <1>h DEF Saves, Becomes, NotCome
    <3>2. PICK p \in Requests : Saved(p) /\ task[p].kind = "password" /\ task[p].save = "insert"
      BY <2>1, <3>1, <1>f DEF AccountStaysDeleted
    <3> QED
      BY <3>2, <1>s, <1>d DEF Saved
  <2>2. CASE ~exists
    BY <2>2, <1>j DEF Saves, Saved
  <2> QED
    BY <2>1, <2>2
<1> QED
  BY <1>1, <1>2, <1>3, <1>4, <1>5, <1>6, <1>7, <1>8 DEF Inv

-----------------------------------------------------------------------------
(* Arrivals.                                                               *)
LEMMA LoadMoves ==
    ASSUME Inv, NEW r \in Requests,
           NEW k \in {"upload", "image", "delete", "profile", "password", "remove"},
           NEW n \in Image, NEW step \in {"put", "erase", "loaded", "done"},
           NEW objects \in SUBSET Keys,
           Load(r, k, n, step, objects),
           k \in {"upload", "image"} => n = r /\ objects = {} /\ step = "put",
           k \in {"delete", "remove"} =>
             /\ n = None
             /\ avatar # None => objects = Keys /\ step = "erase"
             /\ avatar = None => objects = {} /\ step \in {"done", "loaded"}
                                 /\ (k = "remove" => step = "loaded"),
           k \in {"profile", "password"} => n = avatar /\ step = "loaded"
    PROVE  Inv'
<1> DEFINE h == [pc |-> IF exists THEN step ELSE "failed", kind |-> k, seen |-> avatar,
                 new |-> n, calls |-> IF exists THEN objects ELSE {}, broken |-> {},
                 save |-> "none"]
<1>t. /\ task \in [Requests -> {NotCome} \cup Task] /\ bucket \subseteq Requests \X Keys
      /\ exists \in BOOLEAN /\ avatar \in Image /\ AccountFits
  BY DEF Inv, TypeOK
<1>1. task[r] = NotCome /\ task' = [task EXCEPT ![r] = h] /\ UNCHANGED <<exists, avatar, bucket>>
  BY DEF Load
<1>2. /\ h \in Task /\ h.kind = k /\ h.seen = avatar /\ h.new = n /\ h.broken = {}
      /\ h.save = "none"
      /\ h.pc = IF exists THEN step ELSE "failed"
      /\ h.calls = IF exists THEN objects ELSE {}
  BY <1>t DEF Task
<1> HIDE DEF h
<1>j. task'[r] = h
  BY <1>1, <1>t
<1>3. h.seen # None => exists
  BY <1>2, <1>t DEF AccountFits
<1>4. TaskFits(r)'
  BY <1>2, <1>j, <1>3 DEF TaskFits
<1>5. Becomes(r, h)
  BY <1>1, <1>2, <1>3, <1>4, <1>t DEF Becomes, NotCome
<1>6. Stores(r, h)
  BY <1>1, <1>2, <1>3, <1>t DEF Stores
<1>7. Settled(r)' => h.pc = "done"
  BY <1>2, <1>j DEF Settled
<1>8. Saves(r, h)
  BY <1>1, <1>2, <1>3, <1>7, <1>t DEF Saves, AccountFits
<1> QED
  BY <1>2, <1>5, <1>6, <1>8, TaskMoves

LEMMA ArriveMoves ==
    ASSUME Inv, NEW r \in Requests,
           \/ UploadAvatar(r) \/ UploadImage(r) \/ UpdateProfile(r) \/ ChangePassword(r)
           \/ DeleteAvatar(r) \/ DeleteUser(r)
    PROVE  Inv'
<1>1. r \in Image /\ None \in Image /\ avatar \in Image /\ {} \in SUBSET Keys
      /\ Keys \in SUBSET Keys
  BY DEF Image, Inv, TypeOK
<1>2. CASE UploadAvatar(r)
  BY <1>1, <1>2, LoadMoves DEF UploadAvatar
<1>3. CASE UploadImage(r)
  BY <1>1, <1>3, LoadMoves DEF UploadImage
<1>4. CASE UpdateProfile(r)
  BY <1>1, <1>4, LoadMoves DEF UpdateProfile
<1>5. CASE ChangePassword(r)
  BY <1>1, <1>5, LoadMoves DEF ChangePassword
<1>6. CASE DeleteAvatar(r)
  <2>1. CASE avatar = None
    BY <1>1, <1>6, <2>1, LoadMoves DEF DeleteAvatar
  <2>2. CASE avatar # None
    BY <1>1, <1>6, <2>2, LoadMoves DEF DeleteAvatar
  <2> QED
    BY <2>1, <2>2
<1>7. CASE DeleteUser(r)
  <2>1. CASE avatar = None
    BY <1>1, <1>7, <2>1, LoadMoves DEF DeleteUser
  <2>2. CASE avatar # None
    BY <1>1, <1>7, <2>2, LoadMoves DEF DeleteUser
  <2> QED
    BY <2>1, <2>2
<1> QED
  BY <1>2, <1>3, <1>4, <1>5, <1>6, <1>7

-----------------------------------------------------------------------------
(* Steps of a handler.                                                     *)
LEMMA Known ==
    ASSUME Inv, NEW r \in Requests, task[r].pc # "idle"
    PROVE  /\ task[r] \in Task /\ task[r] # NotCome /\ TaskFits(r)
           /\ task \in [Requests -> {NotCome} \cup Task] /\ bucket \subseteq Requests \X Keys
           /\ exists \in BOOLEAN /\ avatar \in Image /\ AccountFits
BY DEF Inv, TypeOK, NotCome

(* Steps that leave the row alone and end no work on it.                   *)
LEMMA RowUnchanged ==
    ASSUME Inv, NEW r \in Requests, NEW h \in Task, task[r] # NotCome,
           UNCHANGED <<exists, avatar>>, task' = [task EXCEPT ![r] = h],
           h.kind = task[r].kind,
           \/ h.pc = task[r].pc /\ h.save = task[r].save
           \/ h.pc \notin {"done", "write"}
           \/ h.pc = "done" /\ h.kind = "image"
    PROVE  Saves(r, h)
<1>1. task'[r] = h /\ exists \in BOOLEAN /\ avatar \in Image /\ AccountFits
  BY DEF Inv, TypeOK
<1>2. h.kind \in {"delete", "remove"} /\ Settled(r)' => Settled(r)
  BY <1>1 DEF Settled
<1> QED
  BY <1>1, <1>2 DEF Saves, AccountFits

(* Steps that leave the objects alone and have no more done about them.    *)
LEMMA BucketUnchanged ==
    ASSUME Inv, NEW r \in Requests, NEW h \in Task, task[r] # NotCome,
           UNCHANGED bucket,
           h.kind = task[r].kind, h.seen = task[r].seen,
           h.kind \in {"upload", "image"} => h.pc \in {"put", "failed"} \/ task[r].pc # "put",
           task[r].pc = "failed" => h.pc = "failed",
           h.kind \in {"delete", "remove"} =>
              \A k \in Keys : k \in h.calls \/ k \in h.broken \/ k \notin task[r].calls,
           task[r].broken \subseteq h.broken
    PROVE  Stores(r, h)
<1>1. task[r].pc # "idle" /\ bucket \subseteq Requests \X Keys
  BY DEF Inv, TypeOK, NotCome, Task
<1> QED
  BY <1>1 DEF Stores

LEMMA PutOriginalMoves ==
    ASSUME Inv, NEW r \in Requests, PutOriginal(r)
    PROVE  Inv'
<1>k. /\ task[r] \in Task /\ task[r] # NotCome /\ TaskFits(r) /\ task[r].pc = "put"
      /\ task \in [Requests -> {NotCome} \cup Task] /\ bucket \subseteq Requests \X Keys
  BY Known DEF PutOriginal
<1>1. PICK step \in {"generate", "failed"} :
           /\ task' = [task EXCEPT ![r].pc = step] /\ UNCHANGED <<exists, avatar>>
           /\ bucket' = IF step = "generate" THEN bucket \cup {<<r, Original>>} ELSE bucket
  BY DEF PutOriginal, Goto
<1> DEFINE h == [task[r] EXCEPT !.pc = step]
<1>2. /\ h \in Task /\ h.pc = step /\ h.kind = task[r].kind /\ h.seen = task[r].seen
      /\ h.new = task[r].new /\ h.calls = task[r].calls /\ h.broken = task[r].broken
      /\ h.save = task[r].save
  BY <1>k DEF Task
<1>3. task' = [task EXCEPT ![r] = h]
  BY <1>1, <1>k
<1> HIDE DEF h
<1>j. task'[r] = h
  BY <1>3, <1>k
<1>4. TaskFits(r)'
  BY <1>k, <1>2, <1>j DEF TaskFits
<1>5. Becomes(r, h)
  BY <1>k, <1>2, <1>3, <1>4 DEF Becomes
<1>6. Saves(r, h)
  BY <1>k, <1>1, <1>2, <1>3, RowUnchanged
<1>7. h.kind \in {"upload", "image"} /\ Original \in Keys
  BY <1>k, <1>2 DEF TaskFits, Keys
<1>8. Stores(r, h)
  BY <1>k, <1>1, <1>2, <1>7 DEF Stores
<1> QED
  BY <1>2, <1>5, <1>6, <1>8, TaskMoves

LEMMA GenerateMoves ==
    ASSUME Inv, NEW r \in Requests, GenerateVariants(r)
    PROVE  Inv'
<1>k. /\ task[r] \in Task /\ task[r] # NotCome /\ TaskFits(r) /\ task[r].pc = "generate"
      /\ task \in [Requests -> {NotCome} \cup Task]
  BY Known DEF GenerateVariants
<1>1. PICK made \in SUBSET Variants :
           /\ task' = [task EXCEPT ![r].pc = "putVariants", ![r].calls = made]
           /\ UNCHANGED <<exists, avatar, bucket>>
  BY DEF GenerateVariants
<1> DEFINE h == [task[r] EXCEPT !.pc = "putVariants", !.calls = made]
<1>2. /\ h \in Task /\ h.pc = "putVariants" /\ h.kind = task[r].kind /\ h.seen = task[r].seen
      /\ h.new = task[r].new /\ h.calls = made /\ h.broken = task[r].broken
      /\ h.save = task[r].save
  BY <1>k DEF Task, Keys
<1>3. task' = [task EXCEPT ![r] = h]
  BY <1>1, <1>k
<1> HIDE DEF h
<1>j. task'[r] = h
  BY <1>3, <1>k
<1>4. TaskFits(r)' /\ h.kind \in {"upload", "image"}
  BY <1>k, <1>2, <1>j DEF TaskFits
<1>5. Becomes(r, h)
  BY <1>k, <1>2, <1>3, <1>4 DEF Becomes
<1>6. Saves(r, h)
  BY <1>k, <1>1, <1>2, <1>3, RowUnchanged
<1>7. Stores(r, h)
  BY <1>k, <1>1, <1>2, <1>4, BucketUnchanged
<1> QED
  BY <1>2, <1>5, <1>6, <1>7, TaskMoves

(* A call of PutVariant or DeleteObject ends, well or badly.               *)
LEMMA CallMoves ==
    ASSUME Inv, NEW r \in Requests, NEW k \in Keys, PutVariant(r, k) \/ DeleteObject(r, k)
    PROVE  Inv'
<1>k. /\ task[r] \in Task /\ task[r] # NotCome /\ TaskFits(r) /\ task[r].pc # "idle"
      /\ task \in [Requests -> {NotCome} \cup Task] /\ bucket \subseteq Requests \X Keys
  BY Known DEF PutVariant, DeleteObject
<1>1. PICK bad \in {{}, {k}} :
           /\ task' = [task EXCEPT ![r].calls = @ \ {k}, ![r].broken = @ \cup bad]
           /\ UNCHANGED <<exists, avatar>> /\ k \in task[r].calls
           /\ bucket' = IF bad = {k} THEN bucket
                        ELSE IF task[r].kind \in {"upload", "image"} THEN bucket \cup {<<r, k>>}
                        ELSE bucket \ {<<task[r].seen, k>>}
           /\ task[r].kind \in {"upload", "image", "delete", "remove"}
  <2>1. task[r].broken \cup {} = task[r].broken /\ {k} # {}
    OBVIOUS
  <2>2. CASE /\ bucket' = bucket \cup {<<r, k>>} /\ task[r].kind \in {"upload", "image"}
             /\ task' = [task EXCEPT ![r].calls = @ \ {k}]
    <3>1. task' = [task EXCEPT ![r].calls = @ \ {k}, ![r].broken = @ \cup {}]
      BY <2>1, <2>2, <1>k DEF Task
    <3> QED
      BY <2>1, <2>2, <3>1 DEF PutVariant, DeleteObject
  <2>3. CASE /\ bucket' = bucket \ {<<task[r].seen, k>>} /\ task[r].kind \in {"delete", "remove"}
             /\ task' = [task EXCEPT ![r].calls = @ \ {k}]
    <3>1. task' = [task EXCEPT ![r].calls = @ \ {k}, ![r].broken = @ \cup {}]
      BY <2>1, <2>3, <1>k DEF Task
    <3> QED
      BY <2>1, <2>3, <3>1 DEF PutVariant, DeleteObject
  <2>4. CASE /\ task' = [task EXCEPT ![r].calls = @ \ {k}, ![r].broken = @ \cup {k}]
             /\ UNCHANGED bucket
    BY <2>4 DEF PutVariant, DeleteObject
  <2> QED
    BY <2>2, <2>3, <2>4 DEF PutVariant, DeleteObject
<1> DEFINE h == [task[r] EXCEPT !.calls = task[r].calls \ {k}, !.broken = task[r].broken \cup bad]
<1>2. /\ h \in Task /\ h.pc = task[r].pc /\ h.kind = task[r].kind /\ h.seen = task[r].seen
      /\ h.new = task[r].new /\ h.calls = task[r].calls \ {k}
      /\ h.broken = task[r].broken \cup bad /\ h.save = task[r].save
  BY <1>k DEF Task
<1>3. task' = [task EXCEPT ![r] = h]
  BY <1>1, <1>k
<1> HIDE DEF h
<1>j. task'[r] = h
  BY <1>3, <1>k
<1>4. TaskFits(r)'
  BY <1>k, <1>2, <1>j DEF TaskFits
<1>e. h.pc = "erase" => h.seen # None
  BY <1>2 DEF Inv, TypeOK
<1>5. Becomes(r, h)
  BY <1>k, <1>2, <1>3, <1>4, <1>e DEF Becomes
<1>6. Saves(r, h)
  BY <1>k, <1>1, <1>2, <1>3, RowUnchanged
<1>7. Stores(r, h)
  <2>1. CASE bad = {k}
    BY <2>1, <1>k, <1>1, <1>2, BucketUnchanged
  <2>2. CASE bad # {k} /\ task[r].kind \in {"upload", "image"}
    BY <2>2, <1>k, <1>1, <1>2 DEF Stores
  <2>3. CASE bad # {k} /\ task[r].kind \in {"delete", "remove"}
    BY <2>3, <1>k, <1>1, <1>2 DEF Stores, Deletes
  <2> QED
    BY <2>1, <2>2, <2>3, <1>1
<1> QED
  BY <1>2, <1>5, <1>6, <1>7, TaskMoves

(* Steps of the program counter alone.                                     *)
LEMMA WaitMoves ==
    ASSUME Inv, NEW r \in Requests, VariantsUploaded(r) \/ ObjectsDeleted(r) \/ Abort(r)
    PROVE  Inv'
<1>k. /\ task[r] \in Task /\ task[r] # NotCome /\ TaskFits(r)
      /\ task[r].pc \notin {"idle", "done", "failed"}
      /\ task \in [Requests -> {NotCome} \cup Task]
  BY Known DEF VariantsUploaded, ObjectsDeleted, Abort
<1>1. PICK step \in {"loaded", "done", "failed"} :
           /\ task' = [task EXCEPT ![r].pc = step]
           /\ UNCHANGED <<exists, avatar, bucket>>
           /\ step # "failed" =>
                \/ /\ task[r].pc = "putVariants" /\ task[r].kind \in {"upload", "image"}
                   /\ task[r].calls = {} \/ task[r].broken # {}
                   /\ step = IF task[r].kind = "upload" THEN "loaded" ELSE "done"
                \/ /\ task[r].pc = "erase" /\ task[r].calls = {} /\ step = "loaded"
                   /\ task[r].kind \in {"delete", "remove"}
  BY <1>k DEF VariantsUploaded, ObjectsDeleted, Abort, Goto, TaskFits
<1> DEFINE h == [task[r] EXCEPT !.pc = step]
<1>2. /\ h \in Task /\ h.pc = step /\ h.kind = task[r].kind /\ h.seen = task[r].seen
      /\ h.new = task[r].new /\ h.calls = task[r].calls /\ h.broken = task[r].broken
      /\ h.save = task[r].save
  BY <1>k DEF Task
<1>3. task' = [task EXCEPT ![r] = h]
  BY <1>1, <1>k
<1> HIDE DEF h
<1>j. task'[r] = h
  BY <1>3, <1>k
<1>4. TaskFits(r)'
  BY <1>k, <1>1, <1>2, <1>j DEF TaskFits
<1>5. Becomes(r, h)
  BY <1>k, <1>1, <1>2, <1>3, <1>4 DEF Becomes
<1>d. step = "done" => task[r].kind = "image" /\ task[r].pc = "putVariants"
  BY <1>1
<1>s. h.pc \in {"loaded", "failed"} \/ (h.pc = "done" /\ h.kind = "image")
  BY <1>1, <1>2, <1>d
<1>6. Saves(r, h)
  BY <1>k, <1>1, <1>2, <1>3, <1>s, RowUnchanged
<1>7. Stores(r, h)
  BY <1>k, <1>1, <1>2, BucketUnchanged
<1> QED
  BY <1>2, <1>5, <1>6, <1>7, TaskMoves

LEMMA RemoveMoves ==
    ASSUME Inv, NEW r \in Requests, RemoveUser(r)
    PROVE  Inv'
<1>k. /\ task[r] \in Task /\ task[r] # NotCome /\ TaskFits(r)
      /\ task[r].pc = "loaded" /\ task[r].kind = "remove"
      /\ task \in [Requests -> {NotCome} \cup Task]
  BY Known DEF RemoveUser
<1>1. /\ exists' = FALSE /\ avatar' = None /\ UNCHANGED bucket
      /\ task' = [task EXCEPT ![r].pc = "done"]
  BY DEF RemoveUser, Goto
<1> DEFINE h == [task[r] EXCEPT !.pc = "done"]
<1>2. /\ h \in Task /\ h.pc = "done" /\ h.kind = task[r].kind /\ h.seen = task[r].seen
      /\ h.new = task[r].new /\ h.calls = task[r].calls /\ h.broken = task[r].broken
      /\ h.save = task[r].save
  BY <1>k DEF Task
<1>3. task' = [task EXCEPT ![r] = h]
  BY <1>1, <1>k
<1> HIDE DEF h
<1>j. task'[r] = h
  BY <1>3, <1>k
<1>4. TaskFits(r)'
  BY <1>k, <1>2, <1>j DEF TaskFits
<1>5. Becomes(r, h)
  BY <1>k, <1>2, <1>3, <1>4 DEF Becomes
<1>6. Saves(r, h)
  BY <1>k, <1>1, <1>2 DEF Saves, Image
<1>7. Stores(r, h)
  BY <1>k, <1>1, <1>2, BucketUnchanged
<1> QED
  BY <1>2, <1>5, <1>6, <1>7, TaskMoves

LEMMA SelectMoves ==
    ASSUME Inv, NEW r \in Requests, SelectForSave(r)
    PROVE  Inv'
<1>k. /\ task[r] \in Task /\ task[r] # NotCome /\ TaskFits(r)
      /\ task[r].pc = "loaded" /\ task[r].kind # "remove"
      /\ task \in [Requests -> {NotCome} \cup Task]
      /\ exists \in BOOLEAN /\ avatar \in Image /\ AccountFits
  BY Known DEF SelectForSave
<1> DEFINE issue == IF ~exists THEN "insert"
                    ELSE IF task[r].new # avatar THEN "update" ELSE "none"
           h == [task[r] EXCEPT !.pc = "write", !.save = issue]
<1>1. task' = [task EXCEPT ![r] = h] /\ UNCHANGED <<exists, avatar, bucket>>
  BY <1>k DEF SelectForSave
<1>u. task[r].kind = "upload" => issue # "none"
  <2> SUFFICES ASSUME task[r].kind = "upload", avatar = r PROVE FALSE
    BY <1>k DEF TaskFits
  <2>1. Published(r)
    BY NoneIsNoImage DEF Inv, ImagesFit
  <2> QED
    BY <2>1, <1>k DEF Published
<1>n. issue \in {"none", "update", "insert"} /\ (issue = "none" => avatar = task[r].new)
  OBVIOUS
<1> HIDE DEF issue
<1>2. /\ h \in Task /\ h.pc = "write" /\ h.kind = task[r].kind /\ h.seen = task[r].seen
      /\ h.new = task[r].new /\ h.calls = task[r].calls /\ h.broken = task[r].broken
      /\ h.save = issue
  BY <1>k, <1>n DEF Task
<1> HIDE DEF h
<1>j. task'[r] = h
  BY <1>1, <1>k
<1>4. TaskFits(r)'
  BY <1>k, <1>2, <1>u, <1>j DEF TaskFits
<1>5. Becomes(r, h)
  BY <1>k, <1>1, <1>2, <1>4 DEF Becomes
<1>s. h.kind \in {"delete", "remove"} /\ Settled(r)' => avatar' = None
  BY <1>k, <1>1, <1>2, <1>n, <1>j DEF Settled, TaskFits
<1>6. Saves(r, h)
  BY <1>k, <1>1, <1>2, <1>s DEF Saves, AccountFits
<1>7. Stores(r, h)
  BY <1>k, <1>1, <1>2, BucketUnchanged
<1> QED
  BY <1>2, <1>5, <1>6, <1>7, TaskMoves

LEMMA SaveMoves ==
    ASSUME Inv, NEW r \in Requests, SaveUser(r)
    PROVE  Inv'
<1>k. /\ task[r] \in Task /\ task[r] # NotCome /\ TaskFits(r) /\ task[r].pc = "write"
      /\ task \in [Requests -> {NotCome} \cup Task]
      /\ exists \in BOOLEAN /\ avatar \in Image /\ AccountFits
  BY Known DEF SaveUser
<1>1. PICK step \in {"done", "failed"} :
           /\ task' = [task EXCEPT ![r].pc = step] /\ UNCHANGED bucket
           /\ step = "failed" => UNCHANGED <<exists, avatar>>
           /\ step = "done" =>
                /\ task[r].save = "insert" => task[r].kind = "password" /\ ~exists
                /\ exists' = (exists \/ task[r].save = "insert")
                /\ avatar' = IF exists' /\ task[r].save # "none" THEN task[r].new ELSE avatar
  BY DEF SaveUser, Goto, MayInsert
<1> DEFINE h == [task[r] EXCEPT !.pc = step]
<1>2. /\ h \in Task /\ h.pc = step /\ h.kind = task[r].kind /\ h.seen = task[r].seen
      /\ h.new = task[r].new /\ h.calls = task[r].calls /\ h.broken = task[r].broken
      /\ h.save = task[r].save
  BY <1>k DEF Task
<1>3. task' = [task EXCEPT ![r] = h]
  BY <1>1, <1>k
<1> HIDE DEF h
<1>j. task'[r] = h
  BY <1>3, <1>k
<1>4. TaskFits(r)'
  BY <1>k, <1>1, <1>2, <1>j DEF TaskFits
<1>5. Becomes(r, h)
  BY <1>k, <1>1, <1>2, <1>3, <1>4 DEF Becomes
<1>6. CASE step = "failed"
  <2>1. Saves(r, h)
    BY <1>6, <1>k, <1>1, <1>2, <1>3, RowUnchanged
  <2> QED
    BY <2>1, <1>2, <1>5, <1>k, <1>1, <1>6, BucketUnchanged, TaskMoves
<1>7. CASE step = "done"
  <2>1. /\ exists' \in BOOLEAN /\ avatar' \in Image
        /\ exists' => exists \/ (h.kind = "password" /\ h.save = "insert")
        /\ ~exists' => ~exists /\ avatar' = None
    BY <1>7, <1>k, <1>1, <1>2 DEF AccountFits, Task
  <2>2. avatar' = avatar \/ (avatar' = h.new /\ h.save # "none")
    BY <1>7, <1>1, <1>2
  <2>3. h.kind = "upload" => avatar' = r \/ ~exists
    BY <1>7, <1>k, <1>1, <1>2 DEF TaskFits
  <2>4. h.kind \in {"delete", "remove"} => Settled(r) \/ avatar' = None
    BY <1>7, <1>k, <1>1, <1>2, <2>1 DEF TaskFits, Settled
  <2>5. h.kind # "remove"
    BY <1>k, <1>2 DEF TaskFits
  <2>6. Saves(r, h)
    BY <1>7, <1>k, <1>2, <2>1, <2>2, <2>3, <2>4, <2>5 DEF Saves
  <2>7. Stores(r, h)
    BY <1>7, <1>k, <1>1, <1>2, BucketUnchanged
  <2> QED
    BY <2>6, <2>7, <1>2, <1>5, TaskMoves
<1> QED
  BY <1>6, <1>7

-----------------------------------------------------------------------------
LEMMA InitInv == Init => Inv
<1> SUFFICES ASSUME Init PROVE Inv
  OBVIOUS
<1>1. TypeOK
  BY DEF Init, TypeOK, Image, NotCome
<1>2. \A r \in Requests : TaskFits(r)
  BY DEF Init, TaskFits, NotCome
<1>3. ImagesFit /\ AccountFits /\ ErasedAreGone /\ LeftoversExplained
  BY DEF Init, ImagesFit, AccountFits, ErasedAreGone, LeftoversExplained, NotCome
<1>4. DeletedIsRestored /\ AccountStaysDeleted
  BY DEF Init, DeletedIsRestored, AccountStaysDeleted, NotCome
<1> QED
  BY <1>1, <1>2, <1>3, <1>4 DEF Inv

LEMMA Stutter == ASSUME Inv, UNCHANGED vars PROVE Inv'
BY DEF Inv, vars, TypeOK, TaskFits, ImagesFit, Published, AccountFits, ErasedAreGone, Deletes,
       DeletedIsRestored, Restored, Saved, LeftoversExplained, Explained, AccountStaysDeleted

(* Row, bucket and handlers agree in every state.                          *)
THEOREM Invariance == Spec => []Inv
<1>1. Inv /\ [Next]_vars => Inv'
  BY Stutter, ArriveMoves, PutOriginalMoves, GenerateMoves, CallMoves, WaitMoves, RemoveMoves,
     SelectMoves, SaveMoves DEF Next
<1> QED
  BY <1>1, InitInv, PTL DEF Spec

(* The avatar of an account can be loaded, but for deletions of that very  *)
(* image that are not done or that a save() has undone.                    *)
THEOREM AvatarCanBeLoaded == Spec => []AvatarIsStored
<1>1. Inv => AvatarIsStored
  <2> SUFFICES ASSUME Inv, avatar # None, <<avatar, Original>> \notin bucket
               PROVE  \E q \in Requests :
                        /\ Deletes(q, avatar)
                        /\ task[q].pc # "done" \/ Restored(avatar)
    BY DEF AvatarIsStored, Restored
  <2>1. avatar \in Requests /\ Published(avatar)
    BY DEF Inv, TypeOK, Image, ImagesFit
  <2>2. PICK q \in Requests : Deletes(q, avatar)
    BY <2>1 DEF Inv, ImagesFit, Published
  <2> QED
    BY <2>2 DEF Inv, DeletedIsRestored
<1> QED
  BY <1>1, Invariance, PTL

(* What a deletion has answered for is gone, but for what it reports.      *)
THEOREM DeletionIsComplete == Spec => []DeletedIsGone
<1>1. Inv => DeletedIsGone
  <2> SUFFICES ASSUME Inv, NEW r \in Requests, NEW k \in Keys,
                      task[r].pc = "done", task[r].seen # None, Deletes(r, task[r].seen),
                      <<task[r].seen, k>> \in bucket
               PROVE  k \in task[r].broken \/ (k # Original /\ task[task[r].seen].broken # {})
    BY DEF DeletedIsGone
  <2>1. TaskFits(r)
    BY DEF Inv
  <2>2. task[r].calls = {}
    BY <2>1 DEF TaskFits, Deletes
  <2> QED
    BY <2>2 DEF Inv, ErasedAreGone
<1> QED
  BY <1>1, Invariance, PTL

(* Whatever the bucket keeps without need has one of the named reasons.    *)
THEOREM NothingElseIsLeft == Spec => []LeftoversExplained
BY Invariance, PTL DEF Inv

(* Only changePassword brings a deleted account back.                      *)
THEOREM DeletionIsFinal == Spec => []AccountStaysDeleted
BY Invariance, PTL DEF Inv
=============================================================================
