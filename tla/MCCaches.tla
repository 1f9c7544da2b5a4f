------------------------------ MODULE MCCaches ------------------------------
(***************************************************************************)
(* The caches for TLC: a behaviour is one cache, a feed or the catalogue,  *)
(* the files and locks of different caches being different ones.           *)
(***************************************************************************)
EXTENDS Feeds, PlayerCatalogue

VARIABLE cache  \* the cache of this behaviour

allVars == <<cache, vars, catalogueVars>>

CachesInit ==
  /\ Init /\ CatalogueInit
  /\ cache \in {"feed", "catalogue"}
  /\ cache = "catalogue" => feed = "board"

FeedSteps      == cache = "feed" /\ Next /\ UNCHANGED <<cache, catalogueVars>>
CatalogueSteps == cache = "catalogue" /\ CatalogueNext /\ UNCHANGED <<cache, vars>>

CachesSpec == CachesInit /\ [][FeedSteps \/ CatalogueSteps]_allVars
=============================================================================
