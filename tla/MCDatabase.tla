----------------------------- MODULE MCDatabase -----------------------------
(***************************************************************************)
(* The parts of the database that no step writes together: sessions and    *)
(* auditors, models, artists, tickets, and the start.  A behaviour is      *)
(* about one of them, so what holds of each alone holds of all.            *)
(***************************************************************************)
EXTENDS Accounts, Catalog, Tickets, Startup, FiniteSets, TLC

VARIABLE focus

(* A bound: the pairs of a hash and a name ever stored, and the hashes that*)
(* may have lost one, together.                                            *)
MaxCatalog == 3
CatalogSize == Cardinality(written) + Cardinality(contended \cup unread)

Symmetry ==
  {handlers @@ names @@ hashes : handlers \in Permutations(Handlers),
     names \in Permutations(Names), hashes \in Permutations(Hashes)}

MCInit ==
  /\ AccountsInit
  /\ CatalogInit
  /\ TicketsInit
  /\ StartupInit
  /\ focus \in {"accounts", "models", "artists", "tickets", "startup"}
  /\ focus # "startup" => userVersion = 0

MCNext ==
  \/ /\ focus = "accounts" /\ AccountsNext
     /\ UNCHANGED <<catalogVars, ticketVars, startupVars, focus>>
  \/ /\ focus = "models" /\ ModelsNext /\ CatalogSize' <= MaxCatalog
     /\ UNCHANGED <<accountVars, ticketVars, startupVars, focus>>
  \/ /\ focus = "artists" /\ ArtistsNext
     /\ UNCHANGED <<accountVars, ticketVars, startupVars, focus>>
  \/ /\ focus = "tickets" /\ TicketsNext
     /\ UNCHANGED <<accountVars, catalogVars, startupVars, focus>>
  \/ /\ focus = "startup" /\ StartupNext
     /\ UNCHANGED <<accountVars, catalogVars, ticketVars, focus>>

MCSpec ==
  MCInit /\ [][MCNext]_<<accountVars, catalogVars, ticketVars, startupVars, focus>>

(* The types of the part that a behaviour is about.                        *)
DatabaseTypesOK ==
  /\ focus = "accounts" => AccountsTypeOK
  /\ focus \in {"models", "artists"} => CatalogTypeOK
  /\ focus = "tickets" => TicketsTypeOK
  /\ focus = "startup" => StartupTypeOK
=============================================================================
