----------------------------- MODULE MCImagePull -----------------------------
(***************************************************************************)
(* Instances of ImagePull for TLC.  The image "base" has a layer twice and *)
(* shares one with the image "app"; "app" is also served encrypted, with   *)
(* the same configuration and other blobs; "bad" lists a wrong diff id for *)
(* its blob, "odd" for a blob of "app"; "win" is for another system.       *)
(***************************************************************************)
EXTENDS ImagePull, TLC

CONSTANTS base, app, appEnc, bad, odd, win,     \* manifests
          cBase, cApp, cBad, cOdd, cWin,        \* configurations
          b1, b2, b3, b4, e2, e3,               \* blobs
          x1, x2, x3, x4, x9,                   \* diff ids
          uBase, uApp, uBad, rBase, rMirror, rApp, rBad

MCConfigOf == (base :> cBase) @@ (app :> cApp) @@ (appEnc :> cApp) @@ (bad :> cBad)
              @@ (odd :> cOdd) @@ (win :> cWin)
MCLayersOf == (base :> <<b1, b2, b1>>) @@ (app :> <<b2, b3>>) @@ (appEnc :> <<e2, e3>>)
              @@ (bad :> <<b4>>) @@ (odd :> <<b3>>) @@ (win :> <<b3>>)
MCDiffIdsOf == (cBase :> <<x1, x2, x1>>) @@ (cApp :> <<x2, x3>>) @@ (cBad :> <<x9>>)
               @@ (cOdd :> <<x9>>) @@ (cWin :> <<x3>>)
MCBlobOf == (b1 :> x1) @@ (b2 :> x2) @@ (b3 :> x3) @@ (b4 :> x4) @@ (e2 :> x2) @@ (e3 :> x3)

\* uBase has a mirror, which is tried first and may serve "bad", "odd" or "win".
MCTasksOf == (uBase :> <<rMirror, rBase>>) @@ (uApp :> <<rApp>>) @@ (uBad :> <<>>)
MCServed == (rMirror :> {base, bad, odd, win}) @@ (rBase :> {base}) @@ (rApp :> {app, appEnc})
            @@ (rBad :> {bad})
\* The mirror's copy of "base" is not signed; of "app" both forms are.
MCAccepted == {<<rBase, base>>, <<rMirror, bad>>, <<rMirror, odd>>, <<rMirror, win>>,
               <<rApp, app>>, <<rApp, appEnc>>}
=============================================================================
