----------------------------- MODULE FilesProofs -----------------------------
(***************************************************************************)
(* Proofs about Files.  Two inductive invariants that do not meet: who       *)
(* owns a case directory and what is in it, and which archive a file of the  *)
(* exports directory is, open, linked or sent.                              *)
(***************************************************************************)
EXTENDS Files, TLAPS

-----------------------------------------------------------------------------
(* The invariants *)

\* What an upload has written so far, under the safe names
WrittenBy(u) == {<<u, Safe[f]>> : f \in upload[u].names \ upload[u].todo}

\* An upload that is under way or was answered has a directory.
HasDirectory ==
  \A u \in Upload : upload[u].pc # "idle" =>
    /\ upload[u].dir \in Dir
    /\ upload[u].todo \subseteq upload[u].names
    /\ upload[u].pc = "answered" => upload[u].todo = {}

\* Unless it was made within another's, it has there what it has written and
\* nothing else,
OnItsOwn(u) == upload[u].pc # "idle" /\ ~upload[u].within
OwnsItsFiles ==
  \A u \in Upload : OnItsOwn(u) =>
    dir[upload[u].dir].exists /\ dir[upload[u].dir].files = WrittenBy(u)

\* ... and no other upload is under way there or above, whose files would be
\* mixed with its own or whose rmtree would remove them.
NobodyAbove ==
  \A u, v \in Upload : OnItsOwn(u) /\ upload[v].pc = "writing" /\ u # v =>
    upload[v].dir \notin Above[upload[u].dir] \union {upload[u].dir}

\* A directory is in those above it; nothing is in one that is not there.
Nested == \A d \in Dir : dir[d].exists => \A e \in Above[d] : dir[e].exists
NothingInNoDirectory == \A d \in Dir : ~dir[d].exists => dir[d].files = {}

UploadsInv == /\ HasDirectory /\ OwnsItsFiles /\ NobodyAbove
              /\ Nested /\ NothingInNoDirectory /\ NoHalfWrittenCase

Active(w) == download[w].pc # "idle"
Holds(w) == download[w].pc \in {"zipping", "sending"}

\* A download has an archive, a file while it builds or sends, and is among the
\* file's writers exactly while it builds.
DownloadsOK ==
  \A w \in Download :
    /\ Active(w) => download[w].archive \in Archive
    /\ Holds(w) <=> download[w].inode # Nothing
    /\ \A i \in Inode : w \in writers[i] <=> download[w].pc = "zipping" /\ download[w].inode = i

\* A file of the exports directory is one archive for as long as a name or a
\* download refers to it, also when its name is gone.
OneArchivePerFile ==
  /\ \A a, b \in Archive : path[a] # Nothing /\ path[a] = path[b] => a = b
  /\ \A a \in Archive, w \in Download :
       Holds(w) /\ path[a] = download[w].inode => a = download[w].archive
  /\ \A v, w \in Download :
       Holds(v) /\ Holds(w) /\ download[v].inode = download[w].inode
         => download[v].archive = download[w].archive

\* A download that is alone so far: no other of the archive, and nobody to
\* unlink its name.
AloneSoFar ==
  \A w \in Download : Active(w) /\ download[w].alone =>
    /\ path[download[w].archive] # Nothing
    /\ \A v \in Download : Active(v) /\ download[v].archive = download[w].archive => v = w

\* ArchivesAreDeleted, the download not being over.
ArchivesInUse ==
  \A a \in Archive : path[a] # Nothing =>
    a \in cut \/ \E w \in Download : Active(w) /\ download[w].archive = a

DownloadsInv == DownloadsOK /\ OneArchivePerFile /\ AloneSoFar /\ ArchivesInUse

-----------------------------------------------------------------------------
(* Uploads *)

LEMMA FilesTypes ==
  /\ NoDir \in DirState /\ ~NoDir.exists
  /\ NoUpload \in UploadState /\ NoUpload.pc = "idle"
  /\ NoDownload \in DownloadState /\ NoDownload.pc = "idle" /\ NoDownload.inode = Nothing
BY DEF NoDir, DirState, NoUpload, UploadState, NoDownload, DownloadState

\* Nothing but an upload touches what the uploads have, and of cut only an
\* archive is taken back.
LEMMA UploadsFrame ==
  ASSUME UploadsInv, UNCHANGED <<dir, upload>>, cut \ Archive \subseteq cut'
  PROVE  UploadsInv'
<1>1. /\ HasDirectory' /\ OwnsItsFiles' /\ NobodyAbove'
      /\ Nested' /\ NothingInNoDirectory'
  BY DEF UploadsInv, HasDirectory, OwnsItsFiles, NobodyAbove, Nested, NothingInNoDirectory,
         WrittenBy, OnItsOwn
<1>2. NoHalfWrittenCase'
  <2> SUFFICES ASSUME NEW d \in Dir, dir[d].exists
               PROVE  d \in cut' \/ \E u \in Upload : upload[u].dir = d /\ upload[u].pc # "idle"
    BY DEF NoHalfWrittenCase
  <2>1. d \notin Archive
    BY FilesAssumption DEF Archive
  <2> QED
    BY <2>1 DEF UploadsInv, NoHalfWrittenCase
<1> QED
  BY <1>1, <1>2 DEF UploadsInv

\* The directory is new, and so in none that is on its own; it is within what
\* others are filling, or nobody is above it.
LEMMA UploadBeginsInv ==
  ASSUME FilesTypeOK, UploadsInv, NEW u \in Upload, NEW d \in Dir, NEW names \in SUBSET FileName,
         UploadBegins(u, d, names)
  PROVE  FilesTypeOK' /\ UploadsInv'
<1> DEFINE within == \E v \in Upload :
                       upload[v].pc = "writing" /\ upload[v].dir \in Above[d] \union {d}
           q == [pc |-> "writing", dir |-> d, names |-> names, todo |-> names, within |-> within]
<1>1. PICK b \in BOOLEAN : b = within
  OBVIOUS
<1>2. /\ q \in UploadState /\ q.pc = "writing" /\ q.dir = d /\ q.names = names /\ q.todo = names
      /\ q.within = b
  BY <1>1 DEF UploadState
<1>3. /\ upload' = [upload EXCEPT ![u] = q]
      /\ upload'[u] = q /\ \A v \in Upload : v # u => upload'[v] = upload[v]
      /\ ~dir[d].exists /\ dir[d].files = {} /\ \A e \in Above[d] : dir[e].exists
      /\ upload[u].pc = "idle" /\ cut' = cut \ {d}
  BY DEF UploadBegins, create_case_dir, FilesTypeOK, UploadsInv, NothingInNoDirectory
<1>4. /\ dir' \in [Dir -> DirState] /\ dir'[d].exists /\ dir'[d].files = {}
      /\ \A e \in Dir : e # d => dir'[e] = dir[e]
  <2>1. dir' = [dir EXCEPT ![d].exists = TRUE] /\ dir \in [Dir -> DirState]
    BY DEF UploadBegins, create_case_dir, FilesTypeOK
  <2>2. /\ dir'[d] = [dir[d] EXCEPT !.exists = TRUE] /\ dir[d] \in DirState
        /\ \A e \in Dir : e # d => dir'[e] = dir[e]
        /\ dir' \in [Dir -> {dir'[e] : e \in Dir}]
    BY <2>1
  <2>3. dir'[d] \in DirState /\ dir'[d].exists /\ dir'[d].files = {}
    BY <1>3, <2>2 DEF DirState
  <2>4. \A e \in Dir : dir'[e] \in DirState
    BY <2>1, <2>2, <2>3
  <2> QED
    BY <2>2, <2>3, <2>4
<1>5. FilesTypeOK'
  BY <1>2, <1>3, <1>4 DEF UploadBegins, downloads, FilesTypeOK
<1>6. \A v \in Upload : v # u /\ OnItsOwn(v) =>
        /\ upload[v].dir \in Dir /\ dir[upload[v].dir].exists
        /\ d \notin Above[upload[v].dir] \union {upload[v].dir}
  BY <1>3 DEF UploadsInv, HasDirectory, OwnsItsFiles, Nested, OnItsOwn
<1>7. ~b => \A v \in Upload : upload[v].pc = "writing" => upload[v].dir \notin Above[d] \union {d}
  BY <1>1
<1> HIDE DEF q, within
<1>8. HasDirectory'
  BY <1>2, <1>3 DEF UploadsInv, HasDirectory
<1>9. OwnsItsFiles'
  <2>1. WrittenBy(u)' = {}
    BY <1>2, <1>3 DEF WrittenBy
  <2>2. \A v \in Upload : v # u => WrittenBy(v)' = WrittenBy(v) /\ (OnItsOwn(v)' <=> OnItsOwn(v))
    BY <1>3 DEF WrittenBy, OnItsOwn
  <2> SUFFICES ASSUME NEW v \in Upload, OnItsOwn(v)'
               PROVE  /\ dir'[upload'[v].dir].exists
                      /\ dir'[upload'[v].dir].files = WrittenBy(v)'
    BY DEF OwnsItsFiles, OnItsOwn
  <2>3. CASE v = u
    BY <1>2, <1>3, <1>4, <2>1, <2>3
  <2>4. CASE v # u
    <3>1. upload'[v] = upload[v] /\ OnItsOwn(v) /\ WrittenBy(v)' = WrittenBy(v)
      BY <1>3, <2>2, <2>4
    <3>2. upload[v].dir \in Dir /\ upload[v].dir # d
      BY <1>6, <2>4, <3>1
    <3>3. dir'[upload[v].dir] = dir[upload[v].dir]
      BY <1>4, <3>2
    <3> QED
      BY <3>1, <3>3 DEF UploadsInv, OwnsItsFiles
  <2> QED
    BY <2>3, <2>4
<1>10. NobodyAbove'
  <2> SUFFICES ASSUME NEW v \in Upload, NEW w \in Upload, v # w,
                      OnItsOwn(v)', upload'[w].pc = "writing"
               PROVE  upload'[w].dir \notin Above[upload'[v].dir] \union {upload'[v].dir}
    BY DEF NobodyAbove, OnItsOwn
  <2>1. CASE v = u
    <3>1. upload'[v].dir = d /\ upload'[w] = upload[w] /\ ~b
      BY <1>2, <1>3, <2>1 DEF OnItsOwn
    <3> QED
      BY <1>7, <3>1
  <2>2. CASE w = u
    BY <1>2, <1>3, <1>6, <2>2 DEF OnItsOwn
  <2>3. CASE v # u /\ w # u
    BY <1>3, <2>3 DEF UploadsInv, NobodyAbove, OnItsOwn
  <2> QED
    BY <2>1, <2>2, <2>3
<1>11. Nested'
  BY <1>3, <1>4, FilesAssumption DEF UploadsInv, Nested
<1>12. NothingInNoDirectory'
  BY <1>4 DEF UploadsInv, NothingInNoDirectory
<1>13. NoHalfWrittenCase'
  <2> SUFFICES ASSUME NEW e \in Dir, dir'[e].exists, e \notin cut'
               PROVE  \E v \in Upload : upload'[v].dir = e /\ upload'[v].pc # "idle"
    BY DEF NoHalfWrittenCase
  <2>1. CASE e = d
    BY <1>2, <1>3, <2>1
  <2>2. CASE e # d
    BY <1>3, <1>4, <2>2 DEF UploadsInv, NoHalfWrittenCase
  <2> QED
    BY <2>1, <2>2
<1> QED
  BY <1>5, <1>8, <1>9, <1>10, <1>11, <1>12, <1>13 DEF UploadsInv

\* One more of its files is in its directory, over one of the same safe name.
LEMMA UploadWritesInv ==
  ASSUME FilesTypeOK, UploadsInv, NEW u \in Upload, UploadWrites(u)
  PROVE  FilesTypeOK' /\ UploadsInv'
<1>1. PICK f \in upload[u].todo :
        /\ upload' = [upload EXCEPT ![u].todo = @ \ {f}]
        /\ dir' = [dir EXCEPT ![upload[u].dir].files =
             {w \in @ : w[2] # Safe[f]} \union {<<u, Safe[f]>>}]
  BY DEF UploadWrites
<1> DEFINE d == upload[u].dir
           todo == upload[u].todo \ {f}
<1>2. /\ upload[u] \in UploadState /\ upload[u].pc = "writing" /\ cut' = cut
      /\ d \in Dir /\ dir[d] \in DirState /\ dir[d].exists
      /\ f \in FileName /\ f \in upload[u].names
  BY DEF UploadWrites, FilesTypeOK, UploadsInv, HasDirectory, UploadState
<1>3. /\ upload' \in [Upload -> UploadState]
      /\ upload'[u].dir = d /\ upload'[u].names = upload[u].names /\ upload'[u].todo = todo
      /\ upload'[u].pc = "writing" /\ upload'[u].within = upload[u].within
      /\ \A v \in Upload : v # u => upload'[v] = upload[v]
  BY <1>1, <1>2 DEF FilesTypeOK, UploadState
<1>4. <<u, Safe[f]>> \in Written
  BY <1>2 DEF Written
<1>5. /\ dir' \in [Dir -> DirState] /\ dir'[d].exists
      /\ dir'[d].files = {w \in dir[d].files : w[2] # Safe[f]} \union {<<u, Safe[f]>>}
      /\ \A e \in Dir : e # d => dir'[e] = dir[e]
  BY <1>1, <1>2, <1>4 DEF FilesTypeOK, DirState
<1>6. FilesTypeOK'
  BY <1>3, <1>5 DEF UploadWrites, downloads, FilesTypeOK
<1>7. OnItsOwn(u) => dir'[d].files = WrittenBy(u)'
  <2> SUFFICES ASSUME OnItsOwn(u) PROVE dir'[d].files = WrittenBy(u)'
    OBVIOUS
  <2>1. WrittenBy(u)' = {<<u, Safe[g]>> : g \in upload[u].names \ todo}
    BY <1>3 DEF WrittenBy
  <2>2. dir[d].files = WrittenBy(u)
    BY DEF UploadsInv, OwnsItsFiles
  <2> QED
    BY <1>2, <1>5, <2>1, <2>2 DEF WrittenBy
<1>8. \A v \in Upload : /\ v # u /\ OnItsOwn(v) => upload[v].dir \in Dir /\ upload[v].dir # d
                        /\ OnItsOwn(v)' <=> OnItsOwn(v)
  BY <1>2, <1>3 DEF UploadsInv, HasDirectory, NobodyAbove, OnItsOwn
<1> HIDE DEF d
<1>9. HasDirectory'
  BY <1>2, <1>3 DEF UploadsInv, HasDirectory
<1>10. OwnsItsFiles'
  <2> SUFFICES ASSUME NEW v \in Upload, OnItsOwn(v)'
               PROVE  /\ dir'[upload'[v].dir].exists
                      /\ dir'[upload'[v].dir].files = WrittenBy(v)'
    BY DEF OwnsItsFiles, OnItsOwn
  <2>1. CASE v = u
    BY <1>3, <1>5, <1>7, <1>8, <2>1
  <2>2. CASE v # u
    <3>1. upload'[v] = upload[v] /\ OnItsOwn(v) /\ WrittenBy(v)' = WrittenBy(v)
      BY <1>3, <1>8, <2>2 DEF WrittenBy
    <3>2. dir'[upload[v].dir] = dir[upload[v].dir]
      BY <1>5, <1>8, <2>2, <3>1
    <3> QED
      BY <3>1, <3>2 DEF UploadsInv, OwnsItsFiles
  <2> QED
    BY <2>1, <2>2
<1>11. NobodyAbove'
  <2>1. \A v \in Upload : upload'[v].dir = upload[v].dir /\ upload'[v].pc = upload[v].pc
    BY <1>2, <1>3 DEF d
  <2> QED
    BY <1>8, <2>1 DEF UploadsInv, NobodyAbove
<1>12. Nested' /\ NothingInNoDirectory'
  <2>1. \A e \in Dir : dir'[e].exists <=> dir[e].exists
    BY <1>2, <1>5
  <2> QED
    BY <1>2, <1>5, <2>1, FilesAssumption DEF UploadsInv, Nested, NothingInNoDirectory
<1>13. NoHalfWrittenCase'
  <2> SUFFICES ASSUME NEW e \in Dir, dir'[e].exists, e \notin cut
               PROVE  \E v \in Upload : upload'[v].dir = e /\ upload'[v].pc # "idle"
    BY <1>2 DEF NoHalfWrittenCase
  <2>1. CASE e = d
    BY <1>3, <2>1
  <2>2. CASE e # d
    <3>1. PICK v \in Upload : upload[v].dir = e /\ upload[v].pc # "idle"
      BY <1>5, <2>2 DEF UploadsInv, NoHalfWrittenCase
    <3> QED
      BY <1>3, <2>2, <3>1 DEF d
  <2> QED
    BY <2>1, <2>2
<1> QED
  BY <1>6, <1>9, <1>10, <1>11, <1>12, <1>13 DEF UploadsInv

\* The answer changes nothing in the directory.
LEMMA UploadAnswersInv ==
  ASSUME FilesTypeOK, UploadsInv, NEW u \in Upload, UploadAnswers(u)
  PROVE  FilesTypeOK' /\ UploadsInv'
<1>1. upload[u] \in UploadState /\ upload[u].pc = "writing" /\ upload[u].todo = {}
  BY DEF UploadAnswers, FilesTypeOK
<1>2. /\ upload' \in [Upload -> UploadState] /\ dir' = dir /\ cut' = cut
      /\ upload'[u].pc = "answered"
      /\ \A v \in Upload :
           /\ v # u => upload'[v] = upload[v]
           /\ upload'[v].dir = upload[v].dir /\ upload'[v].names = upload[v].names
           /\ upload'[v].todo = upload[v].todo /\ upload'[v].within = upload[v].within
           /\ upload'[v].pc = "idle" <=> upload[v].pc = "idle"
           /\ upload'[v].pc = "writing" => upload[v].pc = "writing"
  BY <1>1 DEF UploadAnswers, FilesTypeOK, UploadState
<1>3. FilesTypeOK'
  BY <1>2 DEF UploadAnswers, downloads, FilesTypeOK
<1>4. \A v \in Upload : (OnItsOwn(v)' <=> OnItsOwn(v)) /\ WrittenBy(v)' = WrittenBy(v)
  BY <1>2 DEF OnItsOwn, WrittenBy
<1>5. HasDirectory'
  BY <1>1, <1>2 DEF UploadsInv, HasDirectory
<1>6. OwnsItsFiles' /\ NobodyAbove'
  BY <1>2, <1>4 DEF UploadsInv, OwnsItsFiles, NobodyAbove
<1>7. Nested' /\ NothingInNoDirectory' /\ NoHalfWrittenCase'
  BY <1>2 DEF UploadsInv, Nested, NothingInNoDirectory, NoHalfWrittenCase
<1> QED
  BY <1>3, <1>5, <1>6, <1>7 DEF UploadsInv

\* What fails is removed with everything below it; of what is there nobody is on
\* its own.
LEMMA UploadFailsInv ==
  ASSUME FilesTypeOK, UploadsInv, NEW u \in Upload, UploadFails(u)
  PROVE  FilesTypeOK' /\ UploadsInv'
<1> DEFINE d == upload[u].dir
           Gone(e) == d \in Above[e] \union {e}
<1>1. upload[u].pc = "writing" /\ d \in Dir /\ cut' = cut
  BY DEF UploadFails, UploadsInv, HasDirectory
<1>2. /\ upload' \in [Upload -> UploadState] /\ upload'[u].pc = "idle"
      /\ \A v \in Upload : v # u => upload'[v] = upload[v]
  BY FilesTypes DEF UploadFails, FilesTypeOK
<1>3. /\ dir' \in [Dir -> DirState]
      /\ \A e \in Dir : /\ Gone(e) => ~dir'[e].exists /\ dir'[e].files = {}
                        /\ ~Gone(e) => dir'[e] = dir[e]
  BY <1>1, FilesTypes DEF UploadFails, FilesTypeOK, NoDir
<1>4. FilesTypeOK'
  BY <1>2, <1>3 DEF UploadFails, downloads, FilesTypeOK
<1>5. ASSUME NEW v \in Upload, OnItsOwn(v)'
      PROVE  /\ v # u /\ OnItsOwn(v) /\ upload'[v] = upload[v]
             /\ upload[v].dir \in Dir /\ ~Gone(upload[v].dir)
  <2>1. v # u
    BY <1>2, <1>5 DEF OnItsOwn
  <2>2. upload'[v] = upload[v] /\ OnItsOwn(v)
    BY <1>2, <1>5, <2>1 DEF OnItsOwn
  <2> QED
    BY <1>1, <2>1, <2>2 DEF UploadsInv, HasDirectory, NobodyAbove, OnItsOwn
<1>6. HasDirectory'
  BY <1>2 DEF UploadsInv, HasDirectory
<1>7. OwnsItsFiles'
  <2> SUFFICES ASSUME NEW v \in Upload, OnItsOwn(v)'
               PROVE  /\ dir'[upload'[v].dir].exists
                      /\ dir'[upload'[v].dir].files = WrittenBy(v)'
    BY DEF OwnsItsFiles, OnItsOwn
  <2>1. WrittenBy(v)' = WrittenBy(v)
    BY <1>5 DEF WrittenBy
  <2>2. dir'[upload[v].dir] = dir[upload[v].dir]
    BY <1>3, <1>5
  <2> QED
    BY <1>5, <2>1, <2>2 DEF UploadsInv, OwnsItsFiles
<1>8. NobodyAbove'
  <2> SUFFICES ASSUME NEW v \in Upload, NEW w \in Upload, v # w,
                      OnItsOwn(v)', upload'[w].pc = "writing"
               PROVE  upload'[w].dir \notin Above[upload'[v].dir] \union {upload'[v].dir}
    BY DEF NobodyAbove, OnItsOwn
  <2>1. w # u /\ upload'[w] = upload[w]
    BY <1>2
  <2> QED
    BY <1>5, <2>1 DEF UploadsInv, NobodyAbove
<1>9. Nested'
  <2> SUFFICES ASSUME NEW e \in Dir, dir'[e].exists, NEW a \in Above[e]
               PROVE  dir'[a].exists
    BY DEF Nested
  <2>1. a \in Dir /\ Above[a] \subseteq Above[e]
    BY FilesAssumption
  <2>2. ~Gone(e) /\ dir[e].exists
    BY <1>3
  <2>3. ~Gone(a)
    BY <2>1, <2>2
  <2> QED
    BY <1>3, <2>1, <2>2, <2>3 DEF UploadsInv, Nested
<1>10. NothingInNoDirectory'
  BY <1>3 DEF UploadsInv, NothingInNoDirectory
<1>11. NoHalfWrittenCase'
  <2> SUFFICES ASSUME NEW e \in Dir, dir'[e].exists, e \notin cut
               PROVE  \E v \in Upload : upload'[v].dir = e /\ upload'[v].pc # "idle"
    BY <1>1 DEF NoHalfWrittenCase
  <2>1. ~Gone(e) /\ dir[e].exists
    BY <1>3
  <2>2. PICK v \in Upload : upload[v].dir = e /\ upload[v].pc # "idle"
    BY <2>1 DEF UploadsInv, NoHalfWrittenCase
  <2>3. v # u
    BY <2>1, <2>2
  <2> QED
    BY <1>2, <2>2, <2>3
<1> QED
  BY <1>4, <1>6, <1>7, <1>8, <1>9, <1>10, <1>11 DEF UploadsInv

\* A restart leaves the directories of the uploads it cuts, and marks them.
LEMMA RestartKeepsUploads ==
  ASSUME FilesTypeOK, UploadsInv, Restart
  PROVE  UploadsInv'
<1>1. \A u \in Upload : /\ upload[u].pc = "writing" => upload'[u].pc = "idle"
                        /\ upload[u].pc # "writing" => upload'[u] = upload[u]
  BY FilesTypes DEF Restart
<1>2. dir' = dir
  BY DEF Restart
<1>3. \A u \in Upload : upload[u].pc = "writing" => upload[u].dir \in cut'
  BY DEF Restart
<1>4. HasDirectory' /\ OwnsItsFiles' /\ NobodyAbove' /\ Nested' /\ NothingInNoDirectory'
  BY <1>1, <1>2 DEF UploadsInv, HasDirectory, OwnsItsFiles, NobodyAbove, Nested,
                    NothingInNoDirectory, WrittenBy, OnItsOwn
<1>5. NoHalfWrittenCase'
  <2> SUFFICES ASSUME NEW d \in Dir, dir[d].exists, d \notin cut'
               PROVE  \E u \in Upload : upload'[u].dir = d /\ upload'[u].pc # "idle"
    BY <1>2 DEF NoHalfWrittenCase
  <2>1. d \notin cut
    BY DEF Restart
  <2>2. PICK u \in Upload : upload[u].dir = d /\ upload[u].pc # "idle"
    BY <2>1 DEF UploadsInv, NoHalfWrittenCase
  <2> QED
    BY <1>1, <1>3, <2>2
<1> QED
  BY <1>4, <1>5 DEF UploadsInv

-----------------------------------------------------------------------------
(* Downloads *)

\* Nothing but a download touches what the downloads have, and of cut only a
\* directory is taken back.
LEMMA DownloadsFrame ==
  ASSUME DownloadsInv, UNCHANGED downloads, cut \intersect Archive \subseteq cut'
  PROVE  DownloadsInv'
BY DEF DownloadsInv, DownloadsOK, OneArchivePerFile, AloneSoFar, ArchivesInUse, Active, Holds,
       downloads

\* A download opens the file of its archive, or a new one that nobody refers to.
LEMMA ZipBeginsInv ==
  ASSUME FilesTypeOK, DownloadsInv, NEW w \in Download, NEW j \in Job, NEW kind \in Kinds,
         ZipBegins(w, j, kind)
  PROVE  FilesTypeOK' /\ DownloadsInv'
<1> DEFINE a == <<j, kind>>
           same == {v \in Download : download[v].pc # "idle" /\ download[v].archive = a}
<1>1. PICK i \in Inode :
        /\ IF path[a] = Nothing THEN i \notin InUse ELSE i = path[a]
        /\ path' = [path EXCEPT ![a] = i]
        /\ writers' = [writers EXCEPT ![i] = @ \union {w}]
        /\ download' = [v \in Download |->
             IF v = w THEN [pc |-> "zipping", archive |-> a, inode |-> i, alone |-> same = {}]
             ELSE IF v \in same THEN [download[v] EXCEPT !.alone = FALSE]
             ELSE download[v]]
  BY DEF ZipBegins, archive_of
<1>2. a \in Archive /\ i # Nothing /\ cut' = cut
  BY FilesAssumption DEF Archive, ZipBegins
<1>3. PICK alone \in BOOLEAN : alone = (same = {})
  OBVIOUS
<1>4. /\ download'[w].pc = "zipping" /\ download'[w].archive = a /\ download'[w].inode = i
      /\ download'[w].alone = alone /\ download'[w] \in DownloadState
  BY <1>1, <1>2, <1>3 DEF DownloadState
<1>5. ASSUME NEW v \in Download, v # w
      PROVE  /\ download'[v] \in DownloadState
             /\ download'[v].pc = download[v].pc /\ download'[v].archive = download[v].archive
             /\ download'[v].inode = download[v].inode
             /\ download'[v].alone => download[v].alone /\ v \notin same
  BY <1>1, <1>5 DEF FilesTypeOK, DownloadState
<1>6. path' \in [Archive -> Inode \union {Nothing}] /\ path'[a] = i
      /\ \A b \in Archive : b # a => path'[b] = path[b]
  BY <1>1, <1>2 DEF FilesTypeOK
<1>7. writers' \in [Inode -> SUBSET Download] /\ writers'[i] = writers[i] \union {w}
      /\ \A k \in Inode : k # i => writers'[k] = writers[k]
  BY <1>1 DEF FilesTypeOK
<1>8. FilesTypeOK'
  <2>1. download' \in [Download -> DownloadState]
    BY <1>1, <1>4, <1>5
  <2> QED
    BY <1>2, <1>6, <1>7, <2>1 DEF ZipBegins, uploads, FilesTypeOK
<1>9. /\ \A b \in Archive : path[b] = i => b = a
      /\ \A v \in Download : Holds(v) /\ download[v].inode = i => download[v].archive = a
  <2>1. CASE path[a] = Nothing
    BY <1>1, <1>2, <2>1 DEF InUse
  <2>2. CASE path[a] # Nothing
    BY <1>1, <1>2, <2>2 DEF DownloadsInv, OneArchivePerFile
  <2> QED
    BY <2>1, <2>2
<1>10. download[w].pc = "idle"
  BY DEF ZipBegins
<1>11. \A v \in Download : /\ v # w => (Active(v)' <=> Active(v)) /\ (Holds(v)' <=> Holds(v))
                          /\ Active(w)' /\ Holds(w)'
  BY <1>4, <1>5 DEF Active, Holds
<1>12. \A v \in same : v # w /\ Active(v) /\ download[v].archive = a
  BY <1>10 DEF Active
<1>13. same = {} => \A v \in Download : ~(Active(v) /\ download[v].archive = a)
  BY DEF Active
<1> HIDE DEF a, same
<1>14. DownloadsOK'
  <2> SUFFICES ASSUME NEW v \in Download
               PROVE  /\ Active(v)' => download'[v].archive \in Archive
                      /\ Holds(v)' <=> download'[v].inode # Nothing
                      /\ \A k \in Inode : v \in writers'[k]
                           <=> download'[v].pc = "zipping" /\ download'[v].inode = k
    BY DEF DownloadsOK, Active, Holds
  <2>1. CASE v = w
    <3>1. \A k \in Inode : w \notin writers[k]
      BY <1>10 DEF DownloadsInv, DownloadsOK
    <3> QED
      BY <1>2, <1>4, <1>7, <1>11, <2>1, <3>1
  <2>2. CASE v # w
    BY <1>5, <1>7, <1>11, <2>2 DEF DownloadsInv, DownloadsOK
  <2> QED
    BY <2>1, <2>2
<1>15. OneArchivePerFile'
  <2>1. \A b, c \in Archive : path'[b] # Nothing /\ path'[b] = path'[c] => b = c
    BY <1>2, <1>6, <1>9 DEF DownloadsInv, OneArchivePerFile
  <2>2. \A b \in Archive, v \in Download :
          Holds(v)' /\ path'[b] = download'[v].inode => b = download'[v].archive
    BY <1>2, <1>4, <1>5, <1>6, <1>9, <1>11 DEF DownloadsInv, OneArchivePerFile
  <2>3. \A u, v \in Download :
          Holds(u)' /\ Holds(v)' /\ download'[u].inode = download'[v].inode
            => download'[u].archive = download'[v].archive
    BY <1>4, <1>5, <1>9, <1>11 DEF DownloadsInv, OneArchivePerFile
  <2> QED
    BY <2>1, <2>2, <2>3 DEF OneArchivePerFile, Holds
<1>16. AloneSoFar'
  <2> SUFFICES ASSUME NEW v \in Download, Active(v)', download'[v].alone
               PROVE  /\ path'[download'[v].archive] # Nothing
                      /\ \A u \in Download :
                           Active(u)' /\ download'[u].archive = download'[v].archive => u = v
    BY DEF AloneSoFar, Active
  <2>1. CASE v = w
    <3>1. path'[download'[v].archive] # Nothing
      BY <1>2, <1>4, <1>6, <2>1
    <3>2. same = {}
      BY <1>3, <1>4, <2>1
    <3>3. ASSUME NEW u \in Download, Active(u)', download'[u].archive = a, u # w PROVE FALSE
      BY <1>5, <1>11, <1>13, <3>2, <3>3
    <3> QED
      BY <1>4, <2>1, <3>1, <3>3
  <2>2. CASE v # w
    <3>1. Active(v) /\ download[v].alone /\ v \notin same
      BY <1>5, <1>11, <2>2
    <3>2. download[v].archive # a /\ download[v].archive \in Archive
      BY <3>1 DEF same, Active, DownloadsInv, DownloadsOK
    <3> QED
      BY <1>4, <1>5, <1>6, <1>11, <2>2, <3>1, <3>2 DEF DownloadsInv, AloneSoFar
  <2> QED
    BY <2>1, <2>2
<1>17. ArchivesInUse'
  <2> SUFFICES ASSUME NEW b \in Archive, path'[b] # Nothing, b \notin cut
               PROVE  \E v \in Download : Active(v)' /\ download'[v].archive = b
    BY <1>2 DEF ArchivesInUse, Active
  <2>1. CASE b = a
    BY <1>4, <1>11, <2>1
  <2>2. CASE b # a
    <3>1. PICK v \in Download : Active(v) /\ download[v].archive = b
      BY <1>6, <2>2 DEF DownloadsInv, ArchivesInUse
    <3>2. v # w
      BY <1>10, <3>1 DEF Active
    <3> QED
      BY <1>5, <1>11, <3>1, <3>2
  <2> QED
    BY <2>1, <2>2
<1> QED
  BY <1>8, <1>14, <1>15, <1>16, <1>17 DEF DownloadsInv

\* A download goes on, is over, or unlinks its archive: what w becomes is q.
Moves(w, q) ==
  /\ Active(w) /\ download' = [download EXCEPT ![w] = q]
  /\ q.pc # "zipping"
  /\ q.pc # "idle" => q.archive = download[w].archive /\ q.alone = download[w].alone
  /\ q.pc = "sending" => q.inode = path[q.archive] /\ q.inode # Nothing
  /\ q.pc # "sending" => q.inode = Nothing
  /\ \/ path' = path
     \/ q.pc = "idle" /\ path' = [path EXCEPT ![download[w].archive] = Nothing]
  /\ writers' \in [Inode -> SUBSET Download]
  /\ \A i \in Inode : writers'[i] = writers[i] \ {w}
  /\ \A a \in Archive : a \in cut => a \in cut' \/ path'[a] = Nothing
  /\ q.pc = "idle" => download[w].archive \in cut' \/ path'[download[w].archive] = Nothing

LEMMA DownloadMoves ==
  ASSUME FilesTypeOK, DownloadsInv, NEW w \in Download, NEW q \in DownloadState, Moves(w, q)
  PROVE  /\ path' \in [Archive -> Inode \union {Nothing}]
         /\ download' \in [Download -> DownloadState]
         /\ DownloadsInv'
<1> USE DEF Moves
<1> DEFINE a == download[w].archive
<1>1. a \in Archive
  BY DEF DownloadsInv, DownloadsOK
<1>2. download' \in [Download -> DownloadState] /\ download'[w] = q
      /\ \A v \in Download : v # w => download'[v] = download[v]
  BY DEF FilesTypeOK
<1>3. path' \in [Archive -> Inode \union {Nothing}]
      /\ \A b \in Archive : path'[b] = path[b] \/ (path'[b] = Nothing /\ b = a /\ q.pc = "idle")
  <2>1. CASE path' = path
    BY <2>1 DEF FilesTypeOK
  <2>2. CASE q.pc = "idle" /\ path' = [path EXCEPT ![a] = Nothing]
    BY <1>1, <2>2 DEF FilesTypeOK
  <2> QED
    BY <2>1, <2>2
<1>4. \A v \in Download : v # w => (Active(v)' <=> Active(v)) /\ (Holds(v)' <=> Holds(v))
  BY <1>2 DEF Active, Holds
<1>5. /\ Active(w)' <=> q.pc # "idle"
      /\ Holds(w)' <=> q.pc = "sending"
  BY <1>2 DEF Active, Holds
<1>6. DownloadsOK'
  <2> SUFFICES ASSUME NEW v \in Download
               PROVE  /\ Active(v)' => download'[v].archive \in Archive
                      /\ Holds(v)' <=> download'[v].inode # Nothing
                      /\ \A k \in Inode : v \in writers'[k]
                           <=> download'[v].pc = "zipping" /\ download'[v].inode = k
    BY DEF DownloadsOK, Active, Holds
  <2>1. CASE v = w
    BY <1>1, <1>2, <1>5, <2>1
  <2>2. CASE v # w
    BY <1>2, <1>4, <2>2 DEF DownloadsInv, DownloadsOK
  <2> QED
    BY <2>1, <2>2
<1>7. OneArchivePerFile'
  <2>1. \A b, c \in Archive : path'[b] # Nothing /\ path'[b] = path'[c] => b = c
    BY <1>3 DEF DownloadsInv, OneArchivePerFile
  <2>2. q.pc = "sending" => q.archive = a /\ q.inode = path[a] /\ path' = path
    OBVIOUS
  <2>3. ASSUME NEW b \in Archive, NEW v \in Download, Holds(v)', path'[b] = download'[v].inode
        PROVE  b = download'[v].archive
    <3>1. CASE v = w
      BY <1>1, <1>2, <1>5, <2>2, <2>3, <3>1 DEF DownloadsInv, OneArchivePerFile
    <3>2. CASE v # w
      <4>1. Holds(v) /\ download[v].inode # Nothing
        BY <1>4, <2>3, <3>2 DEF DownloadsInv, DownloadsOK
      <4> QED
        BY <1>2, <1>3, <2>3, <3>2, <4>1 DEF DownloadsInv, OneArchivePerFile
    <3> QED
      BY <3>1, <3>2
  <2>4. ASSUME NEW v \in Download, v # w, Holds(v), q.pc = "sending", download[v].inode = q.inode
        PROVE  download[v].archive = a
    BY <1>1, <2>2, <2>4 DEF DownloadsInv, OneArchivePerFile
  <2>5. \A u, v \in Download :
          Holds(u)' /\ Holds(v)' /\ download'[u].inode = download'[v].inode
            => download'[u].archive = download'[v].archive
    BY <1>2, <1>4, <1>5, <2>2, <2>4 DEF DownloadsInv, OneArchivePerFile
  <2> QED
    BY <2>1, <2>3, <2>5 DEF OneArchivePerFile, Holds
<1>8. AloneSoFar'
  <2> SUFFICES ASSUME NEW v \in Download, Active(v)', download'[v].alone
               PROVE  /\ path'[download'[v].archive] # Nothing
                      /\ \A u \in Download :
                           Active(u)' /\ download'[u].archive = download'[v].archive => u = v
    BY DEF AloneSoFar, Active
  <2>1. CASE v = w
    <3>1. q.pc # "idle" /\ q.archive = a /\ download[w].alone /\ path' = path
      BY <1>2, <1>5, <2>1
    <3> QED
      BY <1>1, <1>2, <1>4, <2>1, <3>1 DEF DownloadsInv, AloneSoFar
  <2>2. CASE v # w
    <3>1. Active(v) /\ download[v].alone /\ download[v].archive # a
      BY <1>2, <1>4, <2>2 DEF DownloadsInv, AloneSoFar
    <3>2. download[v].archive \in Archive
      BY <3>1 DEF DownloadsInv, DownloadsOK
    <3> QED
      BY <1>2, <1>3, <1>4, <1>5, <2>2, <3>1, <3>2 DEF DownloadsInv, AloneSoFar
  <2> QED
    BY <2>1, <2>2
<1>9. ArchivesInUse'
  <2> SUFFICES ASSUME NEW b \in Archive, path'[b] # Nothing, b \notin cut'
               PROVE  \E v \in Download : Active(v)' /\ download'[v].archive = b
    BY DEF ArchivesInUse, Active
  <2>1. PICK v \in Download : Active(v) /\ download[v].archive = b
    BY <1>3 DEF DownloadsInv, ArchivesInUse
  <2>2. CASE v = w
    BY <1>2, <1>5, <2>1, <2>2
  <2>3. CASE v # w
    BY <1>2, <1>4, <2>1, <2>3
  <2> QED
    BY <2>2, <2>3
<1> QED
  BY <1>2, <1>3, <1>6, <1>7, <1>8, <1>9 DEF DownloadsInv

\* The file is built, or the disk is full.
LEMMA ZipStops ==
  ASSUME FilesTypeOK, DownloadsInv, NEW w \in Download, ZipEnds(w) \/ ZipFails(w)
  PROVE  FilesTypeOK' /\ DownloadsInv'
<1> DEFINE a == download[w].archive
           i == download[w].inode
<1>1. /\ download[w] \in DownloadState /\ download[w].pc = "zipping" /\ Active(w)
      /\ a \in Archive /\ i \in Inode /\ path' = path
  BY DEF ZipEnds, ZipFails, Active, FilesTypeOK, DownloadState, DownloadsInv, DownloadsOK, Holds
<1>2. /\ writers' \in [Inode -> SUBSET Download]
      /\ \A k \in Inode : writers'[k] = writers[k] \ {w}
  <2>1. writers' = [writers EXCEPT ![i] = @ \ {w}]
    BY DEF ZipEnds, ZipFails
  <2>2. \A k \in Inode : k # i => w \notin writers[k]
    BY <1>1 DEF DownloadsInv, DownloadsOK
  <2> QED
    BY <1>1, <2>1, <2>2 DEF FilesTypeOK
<1>3. CASE ZipEnds(w)
  <2> DEFINE q == [download[w] EXCEPT !.pc = "zipped", !.inode = Nothing]
  <2>1. /\ q \in DownloadState /\ q.pc = "zipped" /\ q.inode = Nothing
        /\ q.archive = a /\ q.alone = download[w].alone
    BY <1>1 DEF DownloadState
  <2>2. download' = [download EXCEPT ![w] = q] /\ cut' = cut
    BY <1>3 DEF ZipEnds, FilesTypeOK
  <2> HIDE DEF q
  <2>3. Moves(w, q)
    BY <1>1, <1>2, <2>1, <2>2 DEF Moves
  <2>4. download' \in [Download -> DownloadState] /\ DownloadsInv'
    BY <2>1, <2>3, DownloadMoves
  <2> QED
    BY <1>1, <1>2, <1>3, <2>2, <2>4 DEF ZipEnds, uploads, FilesTypeOK
<1>4. CASE ZipFails(w)
  <2>1. /\ download' = [download EXCEPT ![w] = NoDownload] /\ cut' = cut \union {a}
    BY <1>4 DEF ZipFails
  <2>2. Moves(w, NoDownload)
    BY <1>1, <1>2, <2>1, FilesTypes DEF Moves
  <2>3. download' \in [Download -> DownloadState] /\ DownloadsInv'
    BY <2>2, FilesTypes, DownloadMoves
  <2> QED
    BY <1>1, <1>2, <1>4, <2>1, <2>3 DEF ZipFails, uploads, FilesTypeOK
<1> QED
  BY <1>3, <1>4

\* The response opens the file that has the name by now, and unlinks the name.
LEMMA ResponseInv ==
  ASSUME FilesTypeOK, DownloadsInv, NEW w \in Download, ResponseBegins(w) \/ ResponseEnds(w)
  PROVE  FilesTypeOK' /\ DownloadsInv'
<1> DEFINE a == download[w].archive
           i == path[a]
<1>1. /\ download[w] \in DownloadState /\ download[w].pc # "zipping" /\ Active(w)
      /\ a \in Archive /\ i \in Inode \union {Nothing}
  BY DEF ResponseBegins, ResponseEnds, Active, FilesTypeOK, DownloadsInv, DownloadsOK
<1>2. /\ writers' \in [Inode -> SUBSET Download]
      /\ \A k \in Inode : writers'[k] = writers[k] \ {w}
  <2>1. \A k \in Inode : w \notin writers[k]
    BY <1>1 DEF DownloadsInv, DownloadsOK
  <2> QED
    BY <2>1 DEF ResponseBegins, ResponseEnds, FilesTypeOK
<1>3. CASE ResponseBegins(w) /\ i = Nothing
  <2>1. /\ download' = [download EXCEPT ![w] = NoDownload] /\ path' = path /\ cut' = cut
    BY <1>3 DEF ResponseBegins
  <2>2. Moves(w, NoDownload)
    BY <1>1, <1>2, <1>3, <2>1, FilesTypes DEF Moves
  <2>3. download' \in [Download -> DownloadState] /\ DownloadsInv'
    BY <2>2, FilesTypes, DownloadMoves
  <2> QED
    BY <1>2, <1>3, <2>1, <2>3 DEF ResponseBegins, uploads, FilesTypeOK
<1>4. CASE ResponseBegins(w) /\ i # Nothing
  <2> DEFINE q == [download[w] EXCEPT !.pc = "sending", !.inode = i]
  <2>1. /\ q \in DownloadState /\ q.pc = "sending" /\ q.inode = i
        /\ q.archive = a /\ q.alone = download[w].alone
    BY <1>1 DEF DownloadState
  <2>2. download' = [download EXCEPT ![w] = q] /\ path' = path /\ cut' = cut
    BY <1>4 DEF ResponseBegins, FilesTypeOK
  <2> HIDE DEF q
  <2>3. Moves(w, q)
    BY <1>1, <1>2, <1>4, <2>1, <2>2 DEF Moves
  <2>4. download' \in [Download -> DownloadState] /\ DownloadsInv'
    BY <2>1, <2>3, DownloadMoves
  <2> QED
    BY <1>2, <1>4, <2>2, <2>4 DEF ResponseBegins, uploads, FilesTypeOK
<1>5. CASE ResponseEnds(w)
  <2>1. /\ download' = [download EXCEPT ![w] = NoDownload]
        /\ path' = [path EXCEPT ![a] = Nothing] /\ cut' = cut \ {a}
    BY <1>5 DEF ResponseEnds
  <2>2. path'[a] = Nothing
    BY <1>1, <2>1 DEF FilesTypeOK
  <2>3. Moves(w, NoDownload)
    BY <1>1, <1>2, <2>1, <2>2, FilesTypes DEF Moves
  <2>4. /\ path' \in [Archive -> Inode \union {Nothing}]
        /\ download' \in [Download -> DownloadState] /\ DownloadsInv'
    BY <2>3, FilesTypes, DownloadMoves
  <2> QED
    BY <1>2, <1>5, <2>1, <2>4 DEF ResponseEnds, uploads, FilesTypeOK
<1> QED
  BY <1>3, <1>4, <1>5

\* A restart leaves the names of the archives it cuts, and marks them.
LEMMA RestartInv ==
  ASSUME FilesTypeOK, UploadsInv, DownloadsInv, Restart
  PROVE  FilesTypeOK' /\ UploadsInv' /\ DownloadsInv'
<1>1. /\ \A w \in Download : download'[w] = NoDownload
      /\ \A i \in Inode : writers'[i] = {}
      /\ path' = path
      /\ \A a \in Archive : path[a] # Nothing => a \in cut'
  BY DEF Restart
<1>2. FilesTypeOK'
  <2>1. upload' \in [Upload -> UploadState]
    BY FilesTypes DEF Restart, FilesTypeOK
  <2>2. \A u \in Upload : upload[u].pc = "writing" => upload[u].dir \in Dir
    BY DEF UploadsInv, HasDirectory
  <2>3. cut' \subseteq Dir \union Archive
    BY <2>2 DEF Restart, FilesTypeOK
  <2>4. /\ download' \in [Download -> DownloadState]
        /\ writers' \in [Inode -> SUBSET Download]
    BY FilesTypes DEF Restart
  <2> QED
    BY <2>1, <2>3, <2>4 DEF Restart, FilesTypeOK
<1>3. \A w \in Download : ~Active(w)' /\ ~Holds(w)' /\ download'[w].inode = Nothing
  BY <1>1, FilesTypes DEF Active, Holds
<1>4. DownloadsInv'
  <2>1. DownloadsOK'
    BY <1>1, <1>3, FilesTypes DEF DownloadsOK, Active, Holds
  <2>2. OneArchivePerFile'
    BY <1>1, <1>3 DEF DownloadsInv, OneArchivePerFile, Holds
  <2>3. AloneSoFar' /\ ArchivesInUse'
    BY <1>1, <1>3 DEF AloneSoFar, ArchivesInUse, Active
  <2> QED
    BY <2>1, <2>2, <2>3 DEF DownloadsInv
<1> QED
  BY <1>2, <1>4, RestartKeepsUploads

-----------------------------------------------------------------------------
(* The service *)

\* Every step keeps both invariants.
LEMMA FilesStep ==
  ASSUME FilesTypeOK, UploadsInv, DownloadsInv, [FilesNext]_filesVars
  PROVE  FilesTypeOK' /\ UploadsInv' /\ DownloadsInv'
<1>1. ASSUME NEW u \in Upload, NEW d \in Dir, NEW names \in SUBSET FileName, UploadBegins(u, d, names)
      PROVE  FilesTypeOK' /\ UploadsInv' /\ DownloadsInv'
  <2>1. cut \intersect Archive \subseteq cut'
    BY <1>1, FilesAssumption DEF UploadBegins, Archive
  <2> QED
    BY <1>1, <2>1, UploadBeginsInv, DownloadsFrame DEF UploadBegins
<1>2. ASSUME NEW u \in Upload, UploadWrites(u)
      PROVE  FilesTypeOK' /\ UploadsInv' /\ DownloadsInv'
  BY <1>2, UploadWritesInv, DownloadsFrame DEF UploadWrites
<1>3. ASSUME NEW u \in Upload, UploadAnswers(u)
      PROVE  FilesTypeOK' /\ UploadsInv' /\ DownloadsInv'
  BY <1>3, UploadAnswersInv, DownloadsFrame DEF UploadAnswers
<1>4. ASSUME NEW u \in Upload, UploadFails(u)
      PROVE  FilesTypeOK' /\ UploadsInv' /\ DownloadsInv'
  BY <1>4, UploadFailsInv, DownloadsFrame DEF UploadFails
<1>5. ASSUME NEW u \in Upload, NEW j \in Job, CreateJob(j, u)
      PROVE  FilesTypeOK' /\ UploadsInv' /\ DownloadsInv'
  <2>1. FilesTypeOK'
    BY <1>5 DEF CreateJob, FilesTypeOK, UploadState, downloads
  <2> QED
    BY <1>5, <2>1, UploadsFrame, DownloadsFrame DEF CreateJob
<1>6. ASSUME NEW w \in Download, NEW j \in Job, NEW kind \in Kinds, ZipBegins(w, j, kind)
      PROVE  FilesTypeOK' /\ UploadsInv' /\ DownloadsInv'
  <2>1. FilesTypeOK' /\ DownloadsInv'
    BY <1>6, ZipBeginsInv
  <2>2. UNCHANGED <<dir, upload>> /\ cut' = cut
    BY <1>6 DEF ZipBegins, uploads
  <2> QED
    BY <2>1, <2>2, UploadsFrame
<1>7. ASSUME NEW w \in Download, ZipEnds(w) \/ ZipFails(w)
      PROVE  FilesTypeOK' /\ UploadsInv' /\ DownloadsInv'
  BY <1>7, ZipStops, UploadsFrame DEF ZipEnds, ZipFails, uploads
<1>8. ASSUME NEW w \in Download, ResponseBegins(w) \/ ResponseEnds(w)
      PROVE  FilesTypeOK' /\ UploadsInv' /\ DownloadsInv'
  <2>1. ResponseEnds(w) => download[w].archive \in Archive
    BY DEF ResponseEnds, DownloadsInv, DownloadsOK, Active
  <2> QED
    BY <1>8, <2>1, ResponseInv, UploadsFrame DEF ResponseBegins, ResponseEnds, uploads
<1>9. CASE Restart
  BY <1>9, RestartInv
<1>10. CASE UNCHANGED filesVars
  <2>1. FilesTypeOK'
    BY <1>10 DEF filesVars, uploads, downloads, FilesTypeOK
  <2> QED
    BY <1>10, <2>1, UploadsFrame, DownloadsFrame DEF filesVars, uploads
<1> QED
  BY <1>1, <1>2, <1>3, <1>4, <1>5, <1>6, <1>7, <1>8, <1>9, <1>10 DEF FilesNext

\* Types and both invariants hold in every behaviour, through any restarts.
THEOREM FilesCorrect == FilesSpec => [](FilesTypeOK /\ UploadsInv /\ DownloadsInv)
<1>1. FilesInit => FilesTypeOK /\ UploadsInv /\ DownloadsInv
  <2> SUFFICES ASSUME FilesInit PROVE FilesTypeOK /\ UploadsInv /\ DownloadsInv
    OBVIOUS
  <2>1. FilesTypeOK
    BY FilesTypes DEF FilesInit, FilesTypeOK
  <2>2. UploadsInv
    BY FilesTypes
    DEF FilesInit, NoDir, UploadsInv, HasDirectory, OwnsItsFiles, NobodyAbove, Nested,
        NothingInNoDirectory, NoHalfWrittenCase, OnItsOwn
  <2>3. \A w \in Download : ~Active(w) /\ ~Holds(w)
    BY FilesTypes DEF FilesInit, Active, Holds
  <2>4. DownloadsInv
    BY <2>3, FilesTypes
    DEF FilesInit, DownloadsInv, DownloadsOK, OneArchivePerFile, AloneSoFar, ArchivesInUse
  <2> QED
    BY <2>1, <2>2, <2>4
<1>2. FilesTypeOK /\ UploadsInv /\ DownloadsInv /\ [FilesNext]_filesVars => (FilesTypeOK /\ UploadsInv /\ DownloadsInv)'
  BY FilesStep
<1> QED
  BY <1>1, <1>2, PTL DEF FilesSpec

-----------------------------------------------------------------------------
(* The properties *)

\* Whatever uploads run into each other, fail and clean up, the case an upload
\* was answered with holds its files under their safe names and no others, if it
\* was not made within the directory of an upload that was under way.
THEOREM AnsweredCaseHolds == FilesSpec => []AnsweredCaseIsWhole
<1>1. FilesTypeOK /\ UploadsInv => AnsweredCaseIsWhole
  <2> SUFFICES ASSUME FilesTypeOK, UploadsInv,
                      NEW u \in Upload, upload[u].pc = "answered", ~upload[u].within
               PROVE  dir[upload[u].dir] =
                        [exists |-> TRUE, files |-> {<<u, Safe[f]>> : f \in upload[u].names}]
    BY DEF AnsweredCaseIsWhole
  <2>1. dir[upload[u].dir] \in DirState /\ dir[upload[u].dir].exists
    BY DEF FilesTypeOK, UploadsInv, HasDirectory, OwnsItsFiles, OnItsOwn
  <2>2. dir[upload[u].dir].files = {<<u, Safe[f]>> : f \in upload[u].names}
    BY DEF UploadsInv, HasDirectory, OwnsItsFiles, WrittenBy, OnItsOwn
  <2> QED
    BY <2>1, <2>2 DEF DirState
<1> QED
  BY <1>1, FilesCorrect, PTL

\* No directory is left with a part of a case, except by a restart.
THEOREM NoHalfWrittenCaseHolds == FilesSpec => []NoHalfWrittenCase
<1>1. UploadsInv => NoHalfWrittenCase
  BY DEF UploadsInv
<1> QED
  BY <1>1, FilesCorrect, PTL

\* A download that no other of its archive overlaps is sent a closed file, and
\* finds it when the response begins.
THEOREM LoneArchiveHolds == FilesSpec => []LoneArchiveIsWhole
<1>1. FilesTypeOK /\ DownloadsInv => LoneArchiveIsWhole
  <2> SUFFICES ASSUME FilesTypeOK, DownloadsInv, NEW w \in Download, download[w].alone
               PROVE  /\ download[w].pc = "sending" => writers[download[w].inode] = {}
                      /\ download[w].pc = "zipped" => path[download[w].archive] # Nothing
    BY DEF LoneArchiveIsWhole
  <2>1. ASSUME download[w].pc = "sending", NEW v \in Download, v \in writers[download[w].inode]
        PROVE  FALSE
    <3>1. Active(w) /\ Holds(w) /\ download[w].inode \in Inode
      BY <2>1 DEF Active, Holds, FilesTypeOK, DownloadState, DownloadsInv, DownloadsOK
    <3>2. download[v].pc = "zipping" /\ download[v].inode = download[w].inode
      BY <2>1, <3>1 DEF DownloadsInv, DownloadsOK
    <3>3. download[v].archive = download[w].archive
      BY <3>1, <3>2 DEF Holds, DownloadsInv, OneArchivePerFile
    <3> QED
      BY <2>1, <3>1, <3>2, <3>3 DEF Active, DownloadsInv, AloneSoFar
  <2>2. download[w].pc = "sending" => writers[download[w].inode] \subseteq Download
    BY DEF Holds, FilesTypeOK, DownloadState, DownloadsInv, DownloadsOK
  <2>3. download[w].pc = "zipped" => path[download[w].archive] # Nothing
    BY DEF Active, DownloadsInv, AloneSoFar
  <2> QED
    BY <2>1, <2>2, <2>3
<1> QED
  BY <1>1, FilesCorrect, PTL

\* An archive outlives the downloads of it only after a restart or a full disk.
THEOREM ArchivesAreDeletedHolds == FilesSpec => []ArchivesAreDeleted
<1>1. DownloadsInv => ArchivesAreDeleted
  BY DEF DownloadsInv, ArchivesInUse, ArchivesAreDeleted
<1> QED
  BY <1>1, FilesCorrect, PTL
=============================================================================
