------------------------------ MODULE MCParts ------------------------------
(* Seven parts that share no state, checked in one run.  Which of them moves *)
(* is chosen at the start, so that their state spaces are added up and not   *)
(* multiplied.                                                               *)
EXTENDS KeyCheck, OpenPGP, SentScan, Pictures, Folders, ClaudeChat, Delivery,
        TLC

\* The folders of Folders: INBOX, an archive with a folder in it, and a
\* folder the mailbox cannot do without.
FolderPaths == {<<"inbox">>, <<"a">>, <<"b">>, <<"a", "x">>}
Names == {"inbox", "a", "b", "x"}
InboxPath == <<"inbox">>
NoAttr == [p \in FolderPaths |-> ""]
Roles == [n \in Names |-> CASE n = "inbox" -> "inbox" [] n = "b" -> "archive"
                            [] OTHER -> ""]
Ranks == (<<"inbox">> :> 0) @@ (<<"b">> :> 1) @@ (<<"a">> :> 2) @@ (<<"a", "x">> :> 3)
Leaves == {"inbox", "b"}

VARIABLE part

OtherThan(p) ==
    /\ UNCHANGED part
    /\ p # "key" => UNCHANGED keyVars
    /\ p # "pgp" => UNCHANGED pgpVars
    /\ p # "scan" => UNCHANGED scanVars
    /\ p # "pictures" => UNCHANGED pictureVars
    /\ p # "folders" => UNCHANGED folderVars
    /\ p # "chat" => UNCHANGED chat
    /\ p # "delivery" => UNCHANGED deliveryVars

Parts == {"key", "pgp", "scan", "pictures", "folders", "chat", "delivery"}

\* Where a part that does not move has several initial states, one is taken.
PartsInit ==
    /\ part \in Parts
    /\ KeyInit /\ (part # "key" => version = 0)
    /\ PgpInit
    /\ ScanInit /\ (part # "scan" => fileOf = [b \in Box |-> b])
    /\ PicturesInit /\ FoldersInit
    /\ ChatInit /\ (part # "chat" => chat.json /\ chat.takes = {})
    /\ DeliveryInit
    /\ (part # "delivery" => file = [text |-> TRUE, siblings |-> {}, size |-> 1])

PartsNext ==
    \/ part = "key" /\ KeyNext /\ OtherThan("key")
    \/ part = "pgp" /\ PgpNext /\ OtherThan("pgp")
    \/ part = "scan" /\ ScanNext /\ OtherThan("scan")
    \/ part = "pictures" /\ PicturesNext /\ OtherThan("pictures")
    \/ part = "folders" /\ FoldersNext /\ OtherThan("folders")
    \/ part = "chat" /\ ChatNext /\ OtherThan("chat")
    \/ part = "delivery" /\ DeliveryNext /\ OtherThan("delivery")

PartsSpec ==
    PartsInit /\ [][PartsNext]_<<part, keyVars, pgpVars, scanVars, pictureVars,
                                 folderVars, chat, deliveryVars>>

\* Only what moves tells states apart.
View ==
    CASE part = "key" -> <<part, keyVars>>
      [] part = "pgp" -> <<part, pgpVars>>
      [] part = "scan" -> <<part, scanVars>>
      [] part = "pictures" -> <<part, pictureVars>>
      [] part = "folders" -> <<part, folderVars>>
      [] part = "chat" -> <<part, chat>>
      [] part = "delivery" -> <<part, deliveryVars>>

PartsTypeOK ==
    /\ KeyTypeOK /\ PgpTypeOK /\ ScanTypeOK /\ PicturesTypeOK
    /\ FoldersTypeOK /\ ChatTypeOK /\ DeliveryTypeOK

=============================================================================
