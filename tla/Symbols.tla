------------------------------- MODULE Symbols -------------------------------
(***************************************************************************)
(* The build-time cache of symbol icons: crates/polysym-build/src/lib.rs,  *)
(* one build script run per Build, with three places that outlive it: the  *)
(* output directory, the committed polysym-assets and its manifest.        *)
(*                                                                         *)
(* A symbol's two PNGs and its SVG are one icon: who drew it and at which  *)
(* size; weight and padding are like the size.  A copy that fails has      *)
(* copied nothing.  A Lucide name that is wrong fails the build at once.   *)
(* External: the developer, and sfsym, which may fail or skip a symbol.    *)
(***************************************************************************)
EXTENDS Naturals

CONSTANTS SymbolNames,  \* symbols that build.rs may declare
          SizesOf,      \* the sizes it may give each of them
          WithLucide    \* those for which it names a fallback

ASSUME SymbolsAssumption ==
    WithLucide \subseteq SymbolNames /\ SizesOf \in [SymbolNames -> SUBSET (Nat \ {0})]

VARIABLES specs,     \* the size of each declared symbol, 0 for the others
          out,       \* the icons in OUT_DIR
          cache,     \* the icons in polysym-assets
          manifest,  \* its format and the sizes it lists, 0 if it lists none
          quiet,     \* the last build had sfsym and did not warn, and
                     \* nothing has changed since
          slipped    \* symbols of which a refresh has listed an icon that it
                     \* had not drawn or copied, or copied one unlisted

symbolVars == <<specs, out, cache, manifest, quiet, slipped>>

Icon(by, size) == [by |-> by, size |-> size]
NoIcon == Icon("nobody", 0)
Declared == {n \in SymbolNames : specs[n] # 0}
Manifest(format, sizes) == [format |-> format, sizes |-> sizes]

SymbolsInit ==
    /\ specs = [n \in SymbolNames |-> 0]
    /\ out = [n \in SymbolNames |-> NoIcon] /\ cache = out
    /\ manifest = Manifest("missing", specs)
    /\ quiet = FALSE /\ slipped = {}

-----------------------------------------------------------------------------
(* Tier 1: both batches write what they do not skip; a symbol counts as    *)
(* drawn if its files exist, be they from an earlier build.                *)
RunBatch(drawn) ==
    [n \in SymbolNames |-> IF n \in drawn THEN Icon("sfsym", specs[n]) ELSE out[n]]

RunSfsymForAll(sfsym, files) ==
    {n \in Declared : sfsym = "works" /\ files[n] # NoIcon}

(* apply_padding: an icon larger than its canvas makes the offsets wrap,   *)
(* so that nothing is drawn, if the arithmetic is not checked.             *)
ApplyPadding(icon, size) == IF icon.size =< size THEN icon ELSE Icon("wrap", size)

(* Tier 2.                                                                 *)
TryCopyFromAssets(n, uncopied) == cache[n] # NoIcon /\ n \notin uncopied

(* Tier 3.                                                                 *)
WriteLucideAssets(n) == Icon("lucide", specs[n])

Resolution(n, succeeded, uncopied) ==
    IF n \in succeeded THEN "sf"
    ELSE IF TryCopyFromAssets(n, uncopied) THEN "cached"
    ELSE IF n \in WithLucide THEN "lucide"
    ELSE "missing"

Resolved(n, files, resolution) ==
    CASE resolution = "sf"     -> ApplyPadding(files[n], specs[n])
      [] resolution = "cached" -> cache[n]
      [] resolution = "lucide" -> WriteLucideAssets(n)
      [] OTHER                 -> files[n]

(* Mutant: the signatures are not compared.                                *)
CheckFilesOnly(n) == cache[n] = NoIcon

(* check_committed_asset: the symbol's warning.                            *)
CheckCommittedAsset(n) ==
    \/ cache[n] = NoIcon
    \/ manifest.format = "current" /\ manifest.sizes[n] # specs[n]

(* A manifest that is missing, although there are icons, outdated or       *)
(* malformed.                                                              *)
ManifestWarning ==
    \/ manifest.format = "unusable"
    \/ manifest.format = "missing" /\ \E n \in SymbolNames : cache[n] # NoIcon

Warns(n, resolution, sfsym, refresh, uncopied) ==
    CASE resolution = "sf"     -> (refresh /\ n \in uncopied)
                                    \/ (~refresh /\ CheckCommittedAsset(n))
      [] resolution = "cached" -> sfsym # "absent"
      [] OTHER                 -> TRUE

PruneOrphans(icons) == [n \in SymbolNames |-> IF n \in Declared THEN icons[n] ELSE NoIcon]

CopyToAssetsDir(icons, copied) ==
    [n \in SymbolNames |-> IF n \in copied THEN icons[n] ELSE cache[n]]

(* A manifest without entries is not written.                              *)
WriteManifest(listed) ==
    manifest' = IF listed = {} THEN manifest
                ELSE Manifest("current", [n \in SymbolNames |->
                                             IF n \in listed THEN specs[n] ELSE 0])

(* generate_with_opts                                                      *)
Build(sfsym, refresh, drawn, uncopied) ==
    LET files == RunBatch(drawn)
        succeeded == RunSfsymForAll(sfsym, files)
        resolution == [n \in Declared |-> Resolution(n, succeeded, uncopied)]
        icons == [n \in SymbolNames |->
                    IF n \in Declared THEN Resolved(n, files, resolution[n]) ELSE files[n]]
    IN  /\ out' = icons
        /\ IF refresh
           THEN /\ cache' = PruneOrphans(CopyToAssetsDir(icons, succeeded \ uncopied))
                /\ WriteManifest(succeeded)
                /\ slipped' = (slipped \ (succeeded \cap drawn))
                                 \cup (succeeded \ drawn) \cup (succeeded \cap uncopied)
           ELSE UNCHANGED <<cache, manifest, slipped>>
        /\ quiet' = /\ sfsym # "absent"
                    /\ refresh \/ ~ManifestWarning
                    /\ \A n \in Declared : ~Warns(n, resolution[n], sfsym, refresh, uncopied)
        /\ UNCHANGED specs

(* With checked arithmetic the same icon ends the build.                   *)
BuildPanics(refresh, drawn, copied) ==
    LET files == RunBatch(drawn)
        succeeded == RunSfsymForAll("works", files)
        tooLarge == {n \in succeeded : files[n].size > specs[n]}
    IN  /\ tooLarge # {}
        /\ copied \subseteq succeeded \ tooLarge
        /\ out' = files
        /\ IF refresh
           THEN cache' = CopyToAssetsDir(files, copied) /\ slipped' = slipped \cup copied
           ELSE copied = {} /\ UNCHANGED <<cache, slipped>>
        /\ quiet' = FALSE
        /\ UNCHANGED <<specs, manifest>>

EditSpec ==
    /\ \E n \in SymbolNames : \E size \in SizesOf[n] \cup {0} :
          specs[n] # size /\ specs' = [specs EXCEPT ![n] = size]
    /\ quiet' = FALSE
    /\ UNCHANGED <<out, cache, manifest, slipped>>

(* CACHE_FORMAT_VERSION is raised, or a merge garbles the manifest.        *)
OutdateManifest ==
    /\ manifest.format = "current"
    /\ manifest' = Manifest("unusable", [n \in SymbolNames |-> 0])
    /\ quiet' = FALSE
    /\ UNCHANGED <<specs, out, cache, slipped>>

(* cargo clean, or a checkout on another machine.                          *)
CleanOut ==
    /\ out' = [n \in SymbolNames |-> NoIcon]
    /\ UNCHANGED <<specs, cache, manifest, quiet, slipped>>

SymbolsNext ==
    \/ \E sfsym \in {"absent", "fails", "works"}, refresh \in BOOLEAN :
       \E drawn \in SUBSET (IF sfsym = "absent" THEN {} ELSE Declared),
          uncopied \in SUBSET Declared :
          Build(sfsym, refresh, drawn, uncopied)
    \/ \E refresh \in BOOLEAN, drawn, copied \in SUBSET Declared :
          BuildPanics(refresh, drawn, copied)
    \/ EditSpec \/ OutdateManifest \/ CleanOut

SymbolsSpec == SymbolsInit /\ [][SymbolsNext]_symbolVars

-----------------------------------------------------------------------------
(* A build with sfsym that has nothing to warn of may be committed: every  *)
(* declared symbol has its icon in the cache, where builds without sfsym   *)
(* find it, and the manifest lists it as it is declared.                   *)
QuietMeansCommitted ==
    quiet => \A n \in Declared :
                /\ cache[n] # NoIcon
                /\ manifest.format = "current" /\ manifest.sizes[n] = specs[n]

(* What the manifest lists and the cache has was drawn by sfsym at the     *)
(* listed size, unless the refresh that listed it took an icon left by an  *)
(* earlier build, failed to copy it or did not end.                        *)
ManifestTells ==
    \A n \in SymbolNames \ slipped :
        manifest.sizes[n] # 0 /\ cache[n] # NoIcon
            => cache[n] = Icon("sfsym", manifest.sizes[n])

(* What the manifest is for: cache, build.rs and manifest tell the same.   *)
SymbolsKeep == QuietMeansCommitted /\ ManifestTells

SymbolsInv ==
    /\ specs \in [SymbolNames -> Nat]
    /\ out \in [SymbolNames -> [by : {"nobody", "sfsym", "lucide", "wrap"}, size : Nat]]
    /\ cache \in [SymbolNames -> [by : {"nobody", "sfsym", "lucide", "wrap"}, size : Nat]]
    /\ manifest \in [format : {"missing", "current", "unusable"},
                     sizes : [SymbolNames -> Nat]]
    /\ quiet \in BOOLEAN /\ slipped \subseteq SymbolNames
    /\ SymbolsKeep
=============================================================================
