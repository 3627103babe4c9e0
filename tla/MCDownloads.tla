------------------------------- MODULE MCDownloads -------------------------------
(***************************************************************************)
(* Small instances for TLC of what the server gives out: the files of a    *)
(* link (Downloads), all of them in an archive (ZipStream) and pictures of *)
(* members (Pictures).  A behaviour is of one of them; links and pictures  *)
(* are tables of one database.                                             *)
(***************************************************************************)
EXTENDS Downloads, ZipStream, Pictures, TLC

VARIABLE focus

all == <<downloads, zipVars, pictureVars, focus>>

Tables == {[link |-> d.link, member |-> p.member, avatar |-> p.avatar] :
              d \in DownloadTables, p \in PictureTables}

OneOf(S) == CHOOSE x \in S : TRUE

MCInit ==
    /\ focus \in {"link", "archive", "picture"}
    /\ \E d \in IF focus = "link" THEN Tables ELSE {OneOf(Tables)} : HandlersInit(d)
    /\ DownloadHistory /\ PictureStart /\ ZipInit
    /\ focus # "link" => fileSize = OneOf(FileSize)
    /\ focus # "archive" => entries = <<>>

LinkNext    == focus = "link" /\ DownloadNext /\ UNCHANGED <<zipVars, pictureVars, focus>>
ArchiveNext == focus = "archive" /\ ZipNext /\ UNCHANGED <<downloads, pictureVars, focus>>
PictureOnly == UNCHANGED <<fileSize, served, told, crossed, zipVars, focus>>
PicturesNext == focus = "picture" /\ PictureNext /\ PictureOnly

MCNext == LinkNext \/ ArchiveNext \/ PicturesNext

\* PictureFairness, of the behaviours that are about pictures.
Picture(action) == focus = "picture" /\ action /\ PictureOnly

MCSpec ==
    /\ MCInit /\ [][MCNext]_all
    /\ \A t \in Workers : WF_all(Picture(~Idle(t) /\ PictureStep(t)))
    /\ \A v \in Version : WF_all(Picture(Age(v)))
    /\ WF_all(Picture(Look)) /\ SF_all(Picture(RemoveStale))

=============================================================================
