------------------------------ MODULE Multimodal ------------------------------
(***************************************************************************)
(* How an image gets into a prompt: smart_resize and the patches of        *)
(* multimodal/preprocess.py, the order and positions of the tower of       *)
(* multimodal/vit.py, and the merge into the embeddings of a prefill,      *)
(* whole or in chunks (models/vlm.py, multimodal/projector.py).            *)
(*                                                                         *)
(* A patch is its cell <<row, column>> of the grid, which is also what its *)
(* features stand for after tower and projector; a text row is "text".     *)
(* The square roots of smart_resize are exact.                             *)
(***************************************************************************)
EXTENDS Integers, Sequences, FiniteSets

CONSTANTS
    Sides,         \* heights and widths of images
    Ratio,         \* the largest aspect ratio (200)
    Patch, Merge,  \* PATCH_SIZE and MERGE_SIZE
    MinPixels, MaxPixels,
    Before,        \* numbers of text tokens before the image
    ChunkSizes     \* values of chunked_prefill_size (0: whole)

VARIABLE mm

Factor == Patch * Merge

\* What these parameters are.  The limits leave room for an image of the worst
\* ratio, and for its sides to be rounded up, as those of the code do.
MultimodalConstants ==
    /\ Sides \subseteq Nat \ {0} /\ Before \subseteq Nat /\ ChunkSizes \subseteq Nat
    /\ Ratio \in Nat \ {0} /\ Patch \in Nat \ {0} /\ Merge \in Nat \ {0}
    /\ MinPixels \in Nat /\ MaxPixels \in Nat
    /\ Ratio * (Factor * Factor) <= MinPixels /\ 4 * MinPixels <= MaxPixels

Init ==
    \E h, w \in Sides, n \in Before, c \in ChunkSizes :
        mm = [pc |-> "resize", height |-> h, width |-> w, before |-> n, chunk |-> c,
              size |-> <<0, 0>>, patches |-> <<>>, tower |-> <<>>, start |-> 0, rows |-> <<>>]

-----------------------------------------------------------------------------
\* smart_resize

\* round(n / Factor): halves go to the even neighbour.
Nearest(n) ==
    LET q == n \div Factor  r == 2 * (n % Factor) IN
    CASE r < Factor -> q [] r > Factor -> q + 1 [] OTHER -> q + (q % 2)

\* max(factor, floor(n / beta / factor) * factor), n' the other side.
Shrunk(n, other) ==
    LET ks == {k \in 1..MaxPixels : k * Factor * k * Factor * other <= n * MaxPixels} IN
    IF ks = {} THEN Factor ELSE Factor * CHOOSE k \in ks : \A j \in ks : j <= k

\* Rounds down where the image is too small.
FaultyGrown(n, other) ==
    Factor * CHOOSE k \in 0..MinPixels :
        /\ k * Factor * k * Factor * other <= n * MinPixels
        /\ (k + 1) * Factor * (k + 1) * Factor * other > n * MinPixels

\* ceil(n * beta / factor) * factor
Grown(n, other) ==
    LET ks == {k \in 1..MinPixels : k * Factor * k * Factor * other >= n * MinPixels} IN
    Factor * CHOOSE k \in ks : \A j \in ks : k <= j

SmartResize(h, w) ==
    LET hb == Nearest(h) * Factor  wb == Nearest(w) * Factor IN
    CASE hb * wb > MaxPixels -> <<Shrunk(h, w), Shrunk(w, h)>>
      [] hb * wb < MinPixels -> <<Grown(h, w), Grown(w, h)>>
      [] OTHER               -> <<hb, wb>>

Resize ==
    LET tooLong == mm.height > Ratio * mm.width \/ mm.width > Ratio * mm.height IN
    /\ mm.pc = "resize"
    /\ mm' = IF tooLong THEN [mm EXCEPT !.pc = "refused"]
             ELSE [mm EXCEPT !.pc = "patchify", !.size = SmartResize(mm.height, mm.width)]

-----------------------------------------------------------------------------
GridH == mm.size[1] \div Patch
GridW == mm.size[2] \div Patch
Cells == (0..GridH - 1) \X (0..GridW - 1)

\* patchify_qwen2_vl: the permuted axes are block row, block column, row in
\* the block, column in the block; the first varies slowest.
PatchAt(i) ==
    LET area == Merge * Merge
        block == i \div area
        inner == i % area
        across == GridW \div Merge IN
    <<(block \div across) * Merge + (inner \div Merge), (block % across) * Merge + (inner % Merge)>>

Patchify ==
    /\ mm.pc = "patchify"
    /\ mm' = [mm EXCEPT !.pc = "tower",
                        !.patches = [i \in 1..GridH * GridW |-> PatchAt(i - 1)]]

\* Row and column of the rotary tables of the i-th patch.
Rope(i) == <<i \div GridW, i % GridW>>

\* The convolution's patches of the resized image, flattened in raster order,
\* each with the position its rotary table gives it.  (Its input is the image,
\* as Sequence says of pixel_values; the chat route hands over the patches,
\* which a convolution refuses: see README.)
Tower ==
    /\ mm.pc = "tower"
    /\ mm' = [mm EXCEPT !.pc = "prefill",
                        !.tower = [i \in 1..GridH * GridW |->
                            [cell |-> <<(i - 1) \div GridW, (i - 1) % GridW>>, at |-> Rope(i - 1)]]]

\* The prompt: text, a placeholder for every patch, one more text token.
PromptLen == mm.before + GridH * GridW + 1
IsImage(i) == i > mm.before /\ i <= mm.before + GridH * GridW

\* embed_merge over tokens first..last: the placeholders among them take the
\* first so many patches.
Merged(first, last) ==
    [i \in 1..last - first + 1 |->
        IF IsImage(first + i - 1)
        THEN mm.tower[Cardinality({j \in first..first + i - 1 : IsImage(j)})].cell
        ELSE "text"]

\* A forward over the whole prompt or the next chunk, with the pixel values.
Forward ==
    LET last == IF mm.chunk = 0 \/ mm.chunk >= PromptLen - mm.start THEN PromptLen
                ELSE mm.start + mm.chunk IN
    /\ mm.pc = "prefill"
    /\ mm' = [mm EXCEPT !.rows = @ \o Merged(mm.start + 1, last), !.start = last,
                        !.pc = IF last = PromptLen THEN "done" ELSE "prefill"]

Done ==
    /\ mm.pc \in {"refused", "done"}
    /\ UNCHANGED mm

Next == Resize \/ Patchify \/ Tower \/ Forward \/ Done

-----------------------------------------------------------------------------
\* Whether one forward has all the placeholders.
InOneForward ==
    mm.chunk = 0 \/ mm.before \div mm.chunk = (mm.before + GridH * GridW - 1) \div mm.chunk

\* Whatever the size of the image, the resized one is made of whole merge
\* blocks and has between MinPixels and MaxPixels pixels; the patches are its
\* cells, each once, those of a block together; every patch is rotated as the
\* cell it is; and where the placeholders are all in one forward, the k-th
\* one of the prompt stands for the k-th patch and no text row was touched.
ImageInItsPlace ==
    /\ mm.pc \notin {"resize", "refused"} =>
        /\ \A s \in {1, 2} : mm.size[s] % Factor = 0
        /\ mm.size[1] * mm.size[2] \in MinPixels..MaxPixels
    /\ mm.pc \in {"tower", "prefill", "done"} =>
        /\ {mm.patches[i] : i \in DOMAIN mm.patches} = Cells
        /\ \A i, j \in DOMAIN mm.patches :
            (i - 1) \div (Merge * Merge) = (j - 1) \div (Merge * Merge) =>
                \A s \in {1, 2} : mm.patches[i][s] \div Merge = mm.patches[j][s] \div Merge
    /\ \A i \in DOMAIN mm.tower : mm.tower[i].cell = mm.tower[i].at
    /\ mm.pc = "done" /\ InOneForward =>
        /\ Len(mm.rows) = PromptLen
        /\ \A i \in DOMAIN mm.rows :
            mm.rows[i] = IF IsImage(i) THEN mm.tower[i - mm.before].cell ELSE "text"
=============================================================================
