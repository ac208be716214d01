--------------------------- MODULE RemoteOperations ---------------------------
(* The operations of remote/<vendor>/: upload of a file or a directory,       *)
(* download, delete and list over the one session of the vendor's client.     *)
(*                                                                            *)
(* Every operation is a record of how it treats errors.  A directory upload   *)
(* asks the client for its session again for every file, so the session may   *)
(* be closed or opened to another server under way, and requests may fail in  *)
(* the middle of a transfer.                                                  *)
EXTENDS Integers, Sequences, FiniteSets

CONSTANTS
    Files,      \* the local files, in the order the walk finds them: 1 .. n
    Large,      \* the files above the size limit of a simple upload
    Servers,    \* the servers a client may be opened to
    Setups,     \* [vendor, op] and the bounds a behaviour starts with
    NoServer

VARIABLES
    vendor,     \* the operations of one vendor
    session,    \* the server the client is open to, or NoServer
    local,      \* local[f]: the local file, "none" when it is not there
    remote,     \* remote[s][f]
    call,       \* the operation in progress
    left        \* left[k]: bounds on faults, edits and session changes

remoteVars == <<vendor, session, local, remote, call, left>>

-----------------------------------------------------------------------------
(* How the operations treat errors: "os" errors, "sdk" errors of the library  *)
(* and of the service.  What is caught is answered by False, None or an       *)
(* empty list; anything else is raised.                                       *)

All == {"os", "sdk"}

\* keeps: a failed transfer leaves what was there; capped: large files are refused
Upload(caught, keeps, capped) == [caught |-> caught, keeps |-> keeps, capped |-> capped]

S3Upload == Upload(All, TRUE, FALSE)

AzureUpload == Upload(All, TRUE, FALSE)

DropboxUpload == Upload(All, TRUE, FALSE)

BoxUpload == Upload({}, TRUE, FALSE)

OneDriveUpload == Upload({}, TRUE, TRUE)

SftpUpload == Upload({"os"}, FALSE, FALSE)

FtpUpload == Upload({"os"}, FALSE, FALSE)

DriveUpload == Upload({"sdk"}, TRUE, FALSE)

SmbUpload == Upload({}, FALSE, FALSE)

WebDavUpload == Upload({}, TRUE, FALSE)

\* keeps: the local file is only touched when everything has arrived
Download(caught, keeps) == [caught |-> caught, keeps |-> keeps]

S3Download == Download(All, TRUE)

AzureDownload == Download(All, FALSE)

DropboxDownload == Download(All, FALSE)

BoxDownload == Download({}, FALSE)

OneDriveDownload == Download({}, TRUE)

SftpDownload == Download({"os"}, FALSE)

FtpDownload == Download({"os"}, FALSE)

DriveDownload == Download({"sdk"}, TRUE)

SmbDownload == Download({}, FALSE)

WebDavDownload == Download({}, FALSE)

\* What a delete catches
S3Delete == All

AzureDelete == All

DropboxDelete == All

BoxDelete == {}

OneDriveDelete == {}

SftpDelete == {"os"}

FtpDelete == {"os"}

DriveDelete == {"sdk"}

SmbDelete == {}

WebDavDelete == {}

\* paged: the following pages are asked for; the answer after an error is caught too
List(caught, paged) == [caught |-> caught, paged |-> paged]

S3List == List(All, TRUE)

AzureList == List(All, TRUE)

DropboxList == List(All, TRUE)

BoxList == List({}, FALSE)

OneDriveList == List({}, TRUE)

SftpList == List({"os"}, TRUE)

FtpList == List({"os"}, TRUE)

DriveList == List({"sdk"}, TRUE)

SmbList == List({}, TRUE)

WebDavList == List({}, TRUE)

\* closes: close forgets the session; lazy: the session is opened on demand
Client(closes, lazy) == [closes |-> closes, lazy |-> lazy]

S3Client == Client(FALSE, FALSE)

AzureBlobClient == Client(FALSE, FALSE)

DropboxClient == Client(FALSE, FALSE)

BoxClient == Client(FALSE, FALSE)

OneDriveClient == Client(TRUE, FALSE)

SFTPClient == Client(TRUE, FALSE)

FTPClient == Client(TRUE, FALSE)

GoogleDriveClient == Client(FALSE, FALSE)

SMBClient == Client(TRUE, TRUE)

Vendor(name, client, upload, download, delete, list) ==
    [name |-> name, client |-> client, upload |-> upload, download |-> download,
     delete |-> delete, list |-> list]

Vendors ==
    {Vendor("s3", S3Client, S3Upload, S3Download, S3Delete, S3List),
     Vendor("azure", AzureBlobClient, AzureUpload, AzureDownload, AzureDelete, AzureList),
     Vendor("dropbox", DropboxClient, DropboxUpload, DropboxDownload, DropboxDelete, DropboxList),
     Vendor("box", BoxClient, BoxUpload, BoxDownload, BoxDelete, BoxList),
     Vendor("onedrive", OneDriveClient, OneDriveUpload, OneDriveDownload, OneDriveDelete, OneDriveList),
     Vendor("sftp", SFTPClient, SftpUpload, SftpDownload, SftpDelete, SftpList),
     Vendor("ftp", FTPClient, FtpUpload, FtpDownload, FtpDelete, FtpList),
     Vendor("gdrive", GoogleDriveClient, DriveUpload, DriveDownload, DriveDelete, DriveList),
     Vendor("smb", SMBClient, SmbUpload, SmbDownload, SmbDelete, SmbList),
     Vendor("webdav", Client(FALSE, TRUE), WebDavUpload, WebDavDownload, WebDavDelete, WebDavList)}

\* The vendors that have a directory upload
Walkers == {v \in Vendors : v.name \notin {"smb", "webdav"}}


-----------------------------------------------------------------------------

Nowhere == [s \in Servers |-> [f \in Files |-> "none"]]

\* op: "upload_dir", "upload", "download", "folder" (every file of a Drive folder), "delete",
\* "list" or "copy_between" (an http source, staged in a scratch file)
Call(op) ==
    [op |-> op, pc |-> IF op = "copy_between" THEN "fetch" ELSE "run", file |-> 1,
     listed |-> {}, sent |-> [f \in Files |-> "none"], at |-> NoServer, staged |-> FALSE,
     answer |-> "none", whole |-> TRUE]

RemoteInit ==
    \E setup \in Setups :
        /\ vendor = setup.vendor
        /\ session \in {NoServer, CHOOSE s \in Servers : TRUE}
        /\ local = [f \in Files |-> "x"]
        /\ remote = [Nowhere EXCEPT ![CHOOSE s \in Servers : TRUE] = setup.stored]
        /\ call = Call(setup.op)
        /\ left = setup.left

Last(op) == IF op \in {"upload_dir", "folder"} THEN Cardinality(Files) ELSE 1

\* The operation is over, or goes on with the next file.
Onward(c) ==
    IF c.file < Last(c.op) THEN [c EXCEPT !.file = @ + 1]
    ELSE [c EXCEPT !.pc = "over", !.answer = IF c.op \in {"upload_dir", "folder"} THEN "list"
                                            ELSE IF c.whole THEN "true" ELSE "false"]

Raise == call' = [call EXCEPT !.pc = "over", !.answer = "raised", !.staged = FALSE]

\* What a caught error makes of the operation: False, None or an empty list.  copy_between
\* turns the storage layer's errors into False; a Drive folder lists the file all the same.
Caught(k) == call.op = "copy_between" \/ k \in
    (CASE call.op \in {"download", "folder"} -> vendor.download.caught
       [] call.op = "delete" -> vendor.delete
       [] call.op = "list" -> vendor.list.caught
       [] OTHER -> vendor.upload.caught)

Failed(k) ==
    IF ~Caught(k) THEN Raise
    ELSE call' = IF call.op = "list" THEN [call EXCEPT !.pc = "over", !.answer = "list", !.listed = {}, !.whole = FALSE]
                 ELSE Onward([call EXCEPT !.whole = FALSE, !.staged = FALSE,
                                          !.listed = IF call.op = "folder" THEN @ \union {call.file} ELSE @])

Running(ops) == call.pc = "run" /\ call.op \in ops

\* require_client, _ensure_session: there is a session, or one is opened.
Ready ==
    /\ session # NoServer \/ vendor.client.lazy
    /\ session' = IF session = NoServer THEN CHOOSE s \in Servers : TRUE ELSE session

NoSession ==
    /\ Running({"upload_dir", "upload", "download", "folder", "delete", "list", "copy_between"})
    /\ session = NoServer /\ ~vendor.client.lazy
    /\ Raise
    /\ UNCHANGED <<vendor, session, local, remote, left>>

Uploads == {"upload_dir", "upload", "copy_between"}

\* walk_and_upload passes over what is no longer a file; a single upload raises.
Vanished ==
    /\ Running({"upload_dir", "upload"}) /\ local[call.file] = "none"
    /\ IF call.op = "upload_dir" THEN call' = Onward([call EXCEPT !.whole = FALSE]) ELSE Raise
    /\ UNCHANGED <<vendor, session, local, remote, left>>

Transferable == call.op = "copy_between" \/ local[call.file] # "none"

\* A file above the limit of a simple upload is refused; the files before it stay uploaded.
TooLarge ==
    /\ Running({"upload_dir", "upload"}) /\ Transferable
    /\ vendor.upload.capped /\ call.file \in Large
    /\ Raise
    /\ UNCHANGED <<vendor, session, local, remote, left>>

\* walk_and_upload collects what upload_one accepted.
Listed(c, ok) == IF ok THEN [c EXCEPT !.listed = @ \union {c.file}] ELSE c

UploadFile ==
    /\ Running(Uploads) /\ Transferable /\ ~(vendor.upload.capped /\ call.file \in Large)
    /\ Ready
    /\ remote' = [remote EXCEPT ![session'][call.file] = local[call.file]]
    /\ call' = Onward(Listed([call EXCEPT !.sent[call.file] = local[call.file], !.at = session', !.staged = FALSE], TRUE))
    /\ UNCHANGED <<vendor, local, left>>

UploadFails(k) ==
    /\ Running(Uploads) /\ Transferable /\ ~(vendor.upload.capped /\ call.file \in Large)
    /\ Ready /\ left.fault > 0
    /\ left' = [left EXCEPT !.fault = @ - 1]
    /\ remote' = [remote EXCEPT ![session'][call.file] = IF vendor.upload.keeps THEN @ ELSE "torn"]
    /\ IF Caught(k) THEN call' = Onward(Listed([call EXCEPT !.whole = FALSE, !.staged = FALSE], FALSE)) ELSE Raise
    /\ UNCHANGED <<vendor, local>>

DownloadFile ==
    /\ Running({"download", "folder"})
    /\ Ready
    /\ remote[session'][call.file] # "none"
    /\ local' = [local EXCEPT ![call.file] = remote[session'][call.file]]
    /\ call' = Onward([call EXCEPT !.listed = @ \union {call.file}, !.sent[call.file] = remote[session'][call.file],
                                   !.at = session'])
    /\ UNCHANGED <<vendor, remote, left>>

\* A request fails, or the file is not there.
DownloadFails(k) ==
    /\ Running({"download", "folder"})
    /\ Ready
    /\ \/ remote[session'][call.file] = "none" /\ UNCHANGED left
       \/ left.fault > 0 /\ left' = [left EXCEPT !.fault = @ - 1]
    /\ local' = [local EXCEPT ![call.file] = IF vendor.download.keeps THEN @ ELSE "torn"]
    /\ Failed(k)
    /\ UNCHANGED <<vendor, remote>>

DeleteFile ==
    /\ Running({"delete"})
    /\ Ready
    /\ remote' = [remote EXCEPT ![session'][1] = "none"]
    /\ call' = Onward([call EXCEPT !.at = session'])
    /\ UNCHANGED <<vendor, local, left>>

\* One name per page; where pages are not followed the first one is the answer.
ListPage ==
    /\ Running({"list"})
    /\ Ready
    /\ LET here == IF remote[session'][call.file] # "none" THEN {call.file} ELSE {}
           over == ~vendor.list.paged \/ call.file = Cardinality(Files)
       IN  call' = [call EXCEPT !.listed = @ \union here, !.at = session',
                                !.pc = IF over THEN "over" ELSE "run",
                                !.answer = IF over THEN "list" ELSE "none",
                                !.file = IF over THEN @ ELSE @ + 1]
    /\ UNCHANGED <<vendor, local, remote, left>>

RequestFails(k) ==
    /\ Running({"delete", "list"})
    /\ Ready /\ left.fault > 0
    /\ left' = [left EXCEPT !.fault = @ - 1]
    /\ Failed(k)
    /\ UNCHANGED <<vendor, local, remote>>

\* _fetch_into: the scratch file goes with the call, whatever happens.
Fetched(ok) ==
    /\ call.pc = "fetch"
    /\ call' = IF ok THEN [call EXCEPT !.pc = "run", !.staged = TRUE]
               ELSE [call EXCEPT !.pc = "over", !.answer = "false", !.whole = FALSE]
    /\ UNCHANGED <<vendor, session, local, remote, left>>

-----------------------------------------------------------------------------
(* Others *)

\* later_init by another thread: one session for everyone
Reopen(s) ==
    /\ call.pc = "run" /\ left.session > 0 /\ s # session
    /\ session' = s
    /\ left' = [left EXCEPT !.session = @ - 1]
    /\ UNCHANGED <<vendor, local, remote, call>>

Close ==
    /\ call.pc = "run" /\ vendor.client.closes /\ left.session > 0 /\ session # NoServer
    /\ session' = NoServer
    /\ left' = [left EXCEPT !.session = @ - 1]
    /\ UNCHANGED <<vendor, local, remote, call>>

\* A local file is rewritten or removed during the walk.
Edit(f, c) ==
    /\ call.pc = "run" /\ call.op \in {"upload_dir", "upload"} /\ left.edit > 0 /\ local[f] # c
    /\ local' = [local EXCEPT ![f] = c]
    /\ left' = [left EXCEPT !.edit = @ - 1]
    /\ UNCHANGED <<vendor, session, remote, call>>

RemoteNext ==
    \/ NoSession \/ Vanished \/ TooLarge \/ UploadFile \/ DownloadFile \/ DeleteFile \/ ListPage \/ Close
    \/ \E k \in All : UploadFails(k) \/ DownloadFails(k) \/ RequestFails(k)
    \/ \E ok \in BOOLEAN : Fetched(ok)
    \/ \E s \in Servers : Reopen(s)
    \/ \E f \in Files, c \in {"y", "none"} : Edit(f, c)

-----------------------------------------------------------------------------

Over(ops) == call.pc = "over" /\ call.op \in ops

\* What an operation answers is what it did, however sessions, files and requests failed it in
\* between: an upload that is accepted or listed is stored as it was read, on a server the
\* client was open to, and a file that is stored by the call is listed; a download that is
\* accepted has replaced the local file; what was deleted is gone; and no scratch file is left.
AnswersAreTrue ==
    /\ Over({"upload_dir", "upload", "copy_between"}) /\ call.answer \in {"true", "list"} =>
          /\ \A f \in call.listed : \E s \in Servers : remote[s][f] = call.sent[f] /\ call.sent[f] # "none"
          /\ \A f \in Files : call.sent[f] # "none" => f \in call.listed
          /\ call.answer = "true" => call.listed = {1}
    /\ Over({"download"}) /\ call.answer = "true" => local[1] = remote[call.at][1]
    /\ Over({"delete"}) /\ call.answer = "true" => remote[call.at][1] = "none"
    /\ Over({"list"}) /\ call.answer = "list" => \A f \in call.listed : \E s \in Servers : remote[s][f] # "none"
    /\ call.pc = "over" => ~call.staged
==============================================================================
