----------------------------- MODULE MCCrawler -----------------------------
(***************************************************************************)
(* Small webs for TLC.  The home page links to a page, to a redirect to    *)
(* that page and to a page outside the site; the page links to the redirect*)
(* and to an image.                                                            *)
(***************************************************************************)
EXTENDS Crawler, TLC

CONSTANTS home, page1, moved, image, t1, t2,
          dNone, dHome, dPage, dPageNew, dImage,
          hHome, hPage, hMoved, hImage, hOutside

MCThread == {t1, t2}
MCSymmetry == Permutations(MCThread)

MCUrl == {home, page1, moved, image}
MCLocation == [u \in MCUrl |-> IF u = moved THEN page1 ELSE u]
MCData == {dNone, dHome, dPage, dImage}
MCTextData == {dHome, dPage}
MCHref == {hPage, hMoved, hImage, hOutside}
MCFollowable == MCHref \ {hOutside}
MCTarget == [h \in MCHref |-> CASE h = hPage -> page1
                                [] h = hMoved -> moved
                                [] h = hImage -> image
                                [] h = hOutside -> page1]
MCHrefsIn == [d \in MCData |-> CASE d = dHome -> {hPage, hMoved, hOutside}
                                 [] d = dPage -> {hMoved, hImage}
                                 [] OTHER -> {}]
MCBodies == [u \in MCUrl |-> CASE u = home -> {dHome}
                               [] u = image -> {dImage}
                               [] OTHER -> {dPage}]

(* For the runs with a restart: no redirect, the home page links to the     *)
(* page and to the image, the page links back home, until it changes        *)
(* between two runs.                                                        *)
RSUrl == {home, page1, image}
RSLocation == [u \in RSUrl |-> u]
RSData == {dNone, dHome, dPage, dPageNew, dImage}
RSTextData == {dHome, dPage, dPageNew}
RSHref == {hHome, hPage, hImage}
RSTarget == [h \in RSHref |-> CASE h = hHome -> home
                                [] h = hPage -> page1
                                [] h = hImage -> image]
RSHrefsIn == [d \in RSData |-> CASE d = dHome -> {hPage, hImage}
                                  [] d = dPage -> {hHome}
                                  [] OTHER -> {}]
RSBodies == [u \in RSUrl |-> CASE u = home -> {dHome}
                                [] u = page1 -> {dPage, dPageNew}
                                [] u = image -> {dImage}]

(* For the liveness run, where threads are not interchangeable: the same    *)
(* without the image.                                                       *)
LVFollowable == {hHome, hPage}
=============================================================================
