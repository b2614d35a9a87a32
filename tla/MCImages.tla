------------------------------ MODULE MCImages ------------------------------
(***************************************************************************)
(* The files for other machines, on small instances: NEX files, TR-DOS disk  *)
(* images, files of a range of memory and snapshots.  The four share no      *)
(* state, so a behaviour is about one of them.                              *)
(***************************************************************************)
EXTENDS NexFile, TrdDisk, SavedFiles, Snapshots

VARIABLE part   \* the component this behaviour is about

imagesVars == <<part, nexVars, trdVars, filesVars, snapVars>>

MCBitmaps == <<[w |-> 256, h |-> 192, up |-> TRUE], [w |-> 640, h |-> 256, up |-> FALSE]>>
MCPlaces == {<<0, 0>>, <<19, 8000>>}

\* Two names differ only behind the first letter of the extension; the word of the letters is
\* also an address a file may start at and a length it may have.
MCNames == {[base |-> b[1], ext |-> b[2], long |-> b[3]] :
              b \in {<<"a", "C", -1>>, <<"a", "C", 1>>, <<"b", "B", -1>>, <<"b", "B", 5>>}}

MCStarts   == {-3, 2, 4, 8}
MCLengths  == {-2, 0, 1, 5}
MCParams   == {-1, 2}
MCMappings == {<<1, 3>>, <<1, 1>>, <<2, 0>>}

MCStack   == <<3>>
MCRamTops == {-1, 7, 10}
MCPokes   == {<<1, 0, 1>>, <<1, 1, 1>>, <<1, 2, 1>>, <<1, 3, 1>>, <<2, 0, 1>>, <<2, 3, 1>>,
              <<2, 2, 0>>, <<3, 0, 1>>, <<3, 3, 3>>, <<3, 2, 1>>, <<5, 1, 1>>, <<5, 3, 1>>,
              <<0, 2, 1>>, <<7, 0, 1>>, <<7, 3, 1>>, <<4, 0, 2>>, <<6, 1, 2>>, <<6, 3, 2>>,
              <<1, 3, 3>>}

ImagesInit ==
  /\ part \in {"nex", "trd", "files", "snap"}
  /\ NexInit /\ TrdInit /\ FilesInit /\ SnapInit
  /\ part # "snap" => device = "ZX48" /\ ramtop = -1

ImagesNext ==
  /\ UNCHANGED part
  /\ \/ part = "nex"   /\ NexNext   /\ UNCHANGED <<trdVars, filesVars, snapVars>>
     \/ part = "trd"   /\ TrdNext   /\ UNCHANGED <<nexVars, filesVars, snapVars>>
     \/ part = "files" /\ FilesNext /\ UNCHANGED <<nexVars, trdVars, snapVars>>
     \/ part = "snap"  /\ SnapNext  /\ UNCHANGED <<nexVars, trdVars, filesVars>>

ImagesSpec == ImagesInit /\ [][ImagesNext]_imagesVars
=============================================================================
