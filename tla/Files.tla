------------------------------- MODULE Files -------------------------------
(***************************************************************************)
(* Case directories and archives: api/routes_upload.py, core/case_files.py,  *)
(* the download of results of api/routes_jobs.py and of case files of        *)
(* api/routes_agent.py.                                                     *)
(*                                                                          *)
(* Uploads are coroutines and interleave at each await of a chunk.  The two  *)
(* downloads build their archive in a thread of the pool, beside everything  *)
(* else; the response is sent, and the archive removed, by the event loop.   *)
(***************************************************************************)
EXTENDS Integers, FiniteSets

CONSTANTS
  Upload, Download,     \* requests
  Job,
  Dir, Above,           \* directories that may be created, and those above each
  FileName,             \* file names as clients send them
  Safe,                 \* safe_filename, as a function; not injective
  FdsNames,             \* the file names that end in .fds
  StoredFds,            \* ... and the safe ones that still do
  Inode,                \* files of the exports directory
  Nothing

Kinds == {"results", "case"}

ASSUME FilesAssumption ==
  /\ Nothing \notin Dir \union Inode
  /\ Above \in [Dir -> SUBSET Dir]
  /\ \A d \in Dir : d \notin Above[d] /\ \A e \in Above[d] : Above[e] \subseteq Above[d]
  /\ FdsNames \subseteq FileName
  /\ DOMAIN Safe = FileName
  /\ StoredFds \subseteq {Safe[f] : f \in FdsNames}
  /\ Dir \intersect (Job \X Kinds) = {}   \* cut holds both

VARIABLES
  dir,       \* per directory: whether it exists, <<upload, file>> written in it
  upload,    \* per upload: its coroutine
  case,      \* per job: the directory of its fds_file_path
  path,      \* per job and kind of archive: the file of that name in exports
  writers,   \* per file: the downloads that have it open for writing
  download,  \* per download: its handler and response
  cut        \* history: directories and archives whose request died

uploads   == <<dir, upload, case>>
downloads == <<path, writers, download>>
filesVars == <<uploads, downloads, cut>>

Archive == Job \X Kinds
Written == Upload \X {Safe[f] : f \in FileName}

DirState == [exists : BOOLEAN, files : SUBSET Written]
UploadState == [pc : {"idle", "writing", "answered"}, dir : Dir \union {Nothing},
                names : SUBSET FileName, todo : SUBSET FileName,
                within : BOOLEAN]  \* history: an upload was under way here or above
DownloadState == [pc : {"idle", "zipping", "zipped", "sending"},
                  archive : Archive \union {Nothing}, inode : Inode \union {Nothing},
                  alone : BOOLEAN]  \* history: no other download of this archive

FilesTypeOK ==
  /\ dir \in [Dir -> DirState]
  /\ upload \in [Upload -> UploadState]
  /\ case \in [Job -> Dir \union {Nothing}]
  /\ path \in [Archive -> Inode \union {Nothing}]
  /\ writers \in [Inode -> SUBSET Download]
  /\ download \in [Download -> DownloadState]
  /\ cut \subseteq Dir \union Archive

NoDir == [exists |-> FALSE, files |-> {}]
NoUpload == [pc |-> "idle", dir |-> Nothing, names |-> {}, todo |-> {},
             within |-> FALSE]
NoDownload == [pc |-> "idle", archive |-> Nothing, inode |-> Nothing, alone |-> TRUE]

FilesInit ==
  /\ dir = [d \in Dir |-> NoDir]
  /\ upload = [u \in Upload |-> NoUpload]
  /\ case = [j \in Job |-> Nothing]
  /\ path = [a \in Archive |-> Nothing]
  /\ writers = [i \in Inode |-> {}]
  /\ download = [w \in Download |-> NoDownload]
  /\ cut = {}

-----------------------------------------------------------------------------
(* Uploads *)

\* create_named_case_dir fails on a name that is taken; create_case_dir counts
\* up to one that is not, and no await separates that from its mkdir.
\* Mutant: mkdir with exist_ok.
create_case_dir_exist_ok(d) == dir' = [dir EXCEPT ![d].exists = TRUE]
create_case_dir(d) ==
  /\ ~dir[d].exists
  /\ dir' = [dir EXCEPT ![d].exists = TRUE]

\* _resolve_parent_dir takes any directory there is, another upload's too.
UploadBegins(u, d, names) ==
  /\ upload[u].pc = "idle"
  /\ Cardinality(names \intersect FdsNames) = 1
  /\ \A e \in Above[d] : dir[e].exists
  /\ create_case_dir(d)
  /\ upload' = [upload EXCEPT ![u] =
       [pc |-> "writing", dir |-> d, names |-> names, todo |-> names,
        within |-> \E v \in Upload :
                     upload[v].pc = "writing" /\ upload[v].dir \in Above[d] \union {d}]]
  /\ cut' = cut \ {d}
  /\ UNCHANGED <<case, downloads>>

\* The next file is opened, over an earlier one of the same safe name, and
\* streamed to its end, wherever the directory is by then.
UploadWrites(u) ==
  /\ upload[u].pc = "writing"
  /\ dir[upload[u].dir].exists
  /\ \E f \in upload[u].todo :
       /\ upload' = [upload EXCEPT ![u].todo = @ \ {f}]
       /\ dir' = [dir EXCEPT ![upload[u].dir].files =
            {w \in @ : w[2] # Safe[f]} \union {<<u, Safe[f]>>}]
  /\ UNCHANGED <<case, downloads, cut>>

UploadAnswers(u) ==
  /\ upload[u].pc = "writing" /\ upload[u].todo = {}
  /\ upload' = [upload EXCEPT ![u].pc = "answered"]
  /\ UNCHANGED <<dir, case, downloads, cut>>

\* The limit is exceeded, the disk is full or a file cannot be opened: rmtree of
\* the directory, with what others have made below it.
\* Mutant: only the files written so far are removed.
UploadFails_keeps_dir(u) ==
  /\ upload[u].pc = "writing"
  /\ dir' = [dir EXCEPT ![upload[u].dir].files = {w \in @ : w[1] # u}]
  /\ upload' = [upload EXCEPT ![u] = NoUpload]
  /\ UNCHANGED <<case, downloads, cut>>
UploadFails(u) ==
  /\ upload[u].pc = "writing"
  /\ dir' = [d \in Dir |->
               IF upload[u].dir \in Above[d] \union {d} THEN NoDir ELSE dir[d]]
  /\ upload' = [upload EXCEPT ![u] = NoUpload]
  /\ UNCHANGED <<case, downloads, cut>>

\* _require_fds_file: an input file that is still there.
FdsFiles(d) == {w \in dir[d].files : w[2] \in StoredFds}

\* A job is created for the .fds file an upload answered with; it answers with
\* none if the safe name lost the suffix (cut to 120 characters, or ".fds").
CreateJob(j, u) ==
  /\ case[j] = Nothing
  /\ upload[u].pc = "answered"
  /\ \E f \in upload[u].names, w \in FdsFiles(upload[u].dir) : w[2] = Safe[f]
  /\ case' = [case EXCEPT ![j] = upload[u].dir]
  /\ UNCHANGED <<dir, upload, downloads, cut>>

-----------------------------------------------------------------------------
(* Downloads: download_job_results, case_files_zip *)

\* exports/{job_id}.zip and exports/{job_id}-case.zip
archive_of(j, kind) == <<j, kind>>

InUse == {i \in Inode :
            \/ \E a \in Archive : path[a] = i
            \/ \E w \in Download : download[w].inode = i}

\* ZipFile(archive, "w"): the file of that name is cut to nothing, while other
\* downloads may be writing or sending it.
ZipBegins(w, j, kind) ==
  LET a == archive_of(j, kind)
      same == {v \in Download : download[v].pc # "idle" /\ download[v].archive = a} IN
  /\ download[w].pc = "idle"
  /\ case[j] # Nothing
  /\ IF kind = "results" THEN FdsFiles(case[j]) # {} ELSE dir[case[j]].exists
  /\ \E i \in Inode :
       /\ IF path[a] = Nothing THEN i \notin InUse ELSE i = path[a]
       /\ path' = [path EXCEPT ![a] = i]
       /\ writers' = [writers EXCEPT ![i] = @ \union {w}]
       /\ download' = [v \in Download |->
            IF v = w THEN [pc |-> "zipping", archive |-> a, inode |-> i, alone |-> same = {}]
            ELSE IF v \in same THEN [download[v] EXCEPT !.alone = FALSE]
            ELSE download[v]]
  /\ UNCHANGED <<uploads, cut>>

ZipEnds(w) ==
  /\ download[w].pc = "zipping"
  /\ writers' = [writers EXCEPT ![download[w].inode] = @ \ {w}]
  /\ download' = [download EXCEPT ![w].pc = "zipped", ![w].inode = Nothing]
  /\ UNCHANGED <<uploads, path, cut>>

\* The disk is full or a file of the case is gone: the handler raises and the
\* archive stays.
ZipFails(w) ==
  /\ download[w].pc = "zipping"
  /\ writers' = [writers EXCEPT ![download[w].inode] = @ \ {w}]
  /\ cut' = cut \union {download[w].archive}
  /\ download' = [download EXCEPT ![w] = NoDownload]
  /\ UNCHANGED <<uploads, path>>

\* FileResponse looks the name up again; without a file it raises.
ResponseBegins(w) ==
  LET i == path[download[w].archive] IN
  /\ download[w].pc = "zipped"
  /\ download' = IF i = Nothing THEN [download EXCEPT ![w] = NoDownload]
                 ELSE [download EXCEPT ![w].pc = "sending", ![w].inode = i]
  /\ UNCHANGED <<uploads, path, writers, cut>>

\* The last byte is sent and the background task unlinks the name.
\* Mutants: the background task left out; every archive of the job unlinked.
ResponseEnds_keeps(w) ==
  /\ download[w].pc = "sending"
  /\ download' = [download EXCEPT ![w] = NoDownload]
  /\ UNCHANGED <<uploads, path, writers, cut>>
ResponseEnds_unlinks_all(w) ==
  /\ download[w].pc = "sending"
  /\ path' = [a \in Archive |-> IF a[1] = download[w].archive[1] THEN Nothing ELSE path[a]]
  /\ cut' = cut \ {download[w].archive}
  /\ download' = [download EXCEPT ![w] = NoDownload]
  /\ UNCHANGED <<uploads, writers>>
ResponseEnds(w) ==
  /\ download[w].pc = "sending"
  /\ path' = [path EXCEPT ![download[w].archive] = Nothing]
  /\ cut' = cut \ {download[w].archive}
  /\ download' = [download EXCEPT ![w] = NoDownload]
  /\ UNCHANGED <<uploads, writers>>

-----------------------------------------------------------------------------
\* The service is restarted: requests die where they are.
Restart ==
  /\ cut' = cut \union {upload[u].dir : u \in {v \in Upload : upload[v].pc = "writing"}}
                \union {a \in Archive : path[a] # Nothing}
  /\ upload' = [u \in Upload |-> IF upload[u].pc = "writing" THEN NoUpload ELSE upload[u]]
  /\ download' = [w \in Download |-> NoDownload]
  /\ writers' = [i \in Inode |-> {}]
  /\ UNCHANGED <<dir, case, path>>

FilesNext ==
  \/ \E u \in Upload :
       \/ \E d \in Dir, names \in SUBSET FileName : UploadBegins(u, d, names)
       \/ UploadWrites(u) \/ UploadAnswers(u) \/ UploadFails(u)
       \/ \E j \in Job : CreateJob(j, u)
  \/ \E w \in Download :
       \/ \E j \in Job, kind \in Kinds : ZipBegins(w, j, kind)
       \/ ZipEnds(w) \/ ZipFails(w)
       \/ ResponseBegins(w) \/ ResponseEnds(w)
  \/ Restart

FilesSpec == FilesInit /\ [][FilesNext]_filesVars

-----------------------------------------------------------------------------
(* Properties *)

\* The case an upload was answered with stays whole: every file it sent is in
\* its directory, and nothing of another upload, whatever uploads of the same
\* folder name run into each other, fail and clean up after themselves
\* ("uploading a second case into a directory that already holds one would mix
\* two result sets", create_named_case_dir).  Excused is an upload that chose to
\* be made below the directory of another that was still under way: if that one
\* fails, its rmtree takes this case away, before its answer or after it.
AnsweredCaseIsWhole ==
  \A u \in Upload : upload[u].pc = "answered" /\ ~upload[u].within =>
    dir[upload[u].dir] = [exists |-> TRUE, files |-> {<<u, Safe[f]>> : f \in upload[u].names}]

\* "never leave a half-written case behind" (upload_case): a directory is being
\* filled by an upload, or is what one was answered with, or was cut by a restart.
NoHalfWrittenCase ==
  \A d \in Dir : dir[d].exists =>
    \/ d \in cut
    \/ \E u \in Upload : upload[u].dir = d /\ upload[u].pc # "idle"

\* A download that no other download of the same archive overlaps is sent the
\* archive it built, closed and still there, whatever else is downloaded for
\* the job (the agent's case files among it), restarted or failed before.
LoneArchiveIsWhole ==
  \A w \in Download :
    /\ download[w].pc = "sending" /\ download[w].alone => writers[download[w].inode] = {}
    /\ download[w].pc = "zipped" /\ download[w].alone => path[download[w].archive] # Nothing

\* "deleted again once the response has been sent": an archive is there only
\* while a download of it is in progress, or after a restart or a full disk.
ArchivesAreDeleted ==
  \A a \in Archive : path[a] # Nothing =>
    \/ a \in cut
    \/ \E w \in Download : download[w].archive = a
=============================================================================
