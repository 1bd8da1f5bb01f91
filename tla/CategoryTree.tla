------------------------------ MODULE CategoryTree ------------------------------
(***************************************************************************)
(* features/categories: the tree of product categories of a business.      *)
(*                                                                         *)
(* A row holds its parent and, derived from it, its level and its path     *)
(* (the slugs from the root, joined by "/": here the sequence of them).    *)
(* The path decides whether a move would make a category its own           *)
(* descendant.  Each request looks up what it needs, decides, and writes   *)
(* in later statements; a move then rewrites the paths below, row by row,  *)
(* outside any transaction.  Names, images and display order are left out. *)
(***************************************************************************)
EXTENDS Integers, Sequences, FiniteSets, SequencesExt

CONSTANTS
  Categories, NoCategory,  \* NoCategory: no row, and the parent of a root
  Slugs,
  Keepers,                 \* requests that are served at once
  MaxLevel,                \* a category of this level gets no children
  MaxPath,                 \* slugs that fit the column of the path
  MaxEdits                 \* bound on the requests that are served

VARIABLES
  tree,       \* row of each category, or NoCategory
  idsUsed,    \* identifiers that were given out
  treeEdits,  \* what each request has decided to write
  edited,     \* number of requests so far
  disturbed   \* a move overlapped another change or stopped half-way, a category
              \* was moved to itself, or its parent was set without its path

treeVars == <<tree, idsUsed, treeEdits, edited, disturbed>>

NoEdit == [at |-> "none"]
Idle(k) == treeEdits[k] = NoEdit /\ edited < MaxEdits
Begins(k, e) == treeEdits' = [treeEdits EXCEPT ![k] = e] /\ edited' = edited + 1
Proceed(k, e) == treeEdits' = [treeEdits EXCEPT ![k] = e] /\ UNCHANGED <<edited, idsUsed>>

Listed(c) == tree[c] # NoCategory
ParentExists(p) == p # NoCategory => Listed(p)
SlugTaken(s, c) == \E o \in Categories \ {c} : Listed(o) /\ tree[o].slug = s
ChildrenIn(t, c) == {o \in Categories : t[o] # NoCategory /\ t[o].parent = c}
Children(c) == ChildrenIn(tree, c)

\* The categories c is above of, itself among them: what every set has that has
\* c and the children of all it has.
HasChildren(S) == \A o \in Categories : Listed(o) /\ tree[o].parent \in S => o \in S
Below(c) == {o \in Categories : \A S \in SUBSET (Categories \cup {NoCategory}) : c \in S /\ HasChildren(S) => o \in S}
\* buildTree shows what it reaches from the rows without a parent.
Reached(c) == c \in Below(NoCategory)

Moves(k) == treeEdits[k].at \in {"move", "descend"}
Grows(k) == treeEdits[k].at \in {"insert", "remove"}

\* A request that starts now moves categories while others change them.
Crossed(k, moving) ==
  disturbed \/ \E o \in Keepers \ {k} : Moves(o) \/ (moving /\ Grows(o))

\* What may be a parent: none, or a category that is not too deep.
Parents == {NoCategory} \cup {p \in Categories : Listed(p) /\ tree[p].level < MaxLevel}

-----------------------------------------------------------------------------
\* create: level and path follow from the parent as it was read.
AskNew(k, c, p) ==
  /\ Idle(k) /\ c \notin idsUsed /\ idsUsed' = idsUsed \cup {c}
  /\ p \in Parents
  /\ \E s \in Slugs :
       /\ ~SlugTaken(s, c)
       /\ Begins(k, [at |-> "insert", category |-> c,
                     row |-> [slug |-> s, parent |-> p, active |-> TRUE,
                              level |-> IF p = NoCategory THEN 0 ELSE tree[p].level + 1,
                              path |-> IF p = NoCategory THEN <<s>> ELSE Append(tree[p].path, s)]])
  /\ disturbed' = Crossed(k, FALSE)
  /\ UNCHANGED tree

\* The unique index and the foreign key may refuse it.
InsertNew(k) ==
  LET e == treeEdits[k]
  IN  /\ e.at = "insert" /\ Proceed(k, NoEdit)
      /\ tree' = IF SlugTaken(e.row.slug, e.category) \/ ~ParentExists(e.row.parent) \/ Len(e.row.path) > MaxPath
                 THEN tree ELSE [tree EXCEPT ![e.category] = e.row]
      /\ UNCHANGED disturbed

\* update: a new name gives a new slug, but neither it nor a new parent changes
\* a path; the slug that was read is written in any case.
AskRename(k, c) ==
  /\ Idle(k) /\ Listed(c)
  /\ \E s \in Slugs, p \in {tree[c].parent} \cup {o \in Categories : Listed(o)} :
       /\ s # tree[c].slug => ~SlugTaken(s, c)
       /\ Begins(k, [at |-> "rename", category |-> c, slug |-> s, reparent |-> p # tree[c].parent, parent |-> p])
  /\ UNCHANGED <<tree, idsUsed, disturbed>>

Rename(k) ==
  LET e == treeEdits[k]
      ok == Listed(e.category) /\ ~SlugTaken(e.slug, e.category) /\ (e.reparent => ParentExists(e.parent))
  IN  /\ e.at = "rename" /\ Proceed(k, NoEdit)
      /\ tree' = IF ~ok THEN tree
                 ELSE [tree EXCEPT ![e.category] = [@ EXCEPT !.slug = e.slug, !.parent = IF e.reparent THEN e.parent ELSE tree[e.category].parent]]
      /\ disturbed' = (disturbed \/ (ok /\ e.reparent))

\* delete: refused for a category with children, active or not.
AskRemove(k, c, hard) ==
  /\ Idle(k) /\ Listed(c) /\ Children(c) = {}
  /\ Begins(k, [at |-> "remove", category |-> c, hard |-> hard])
  /\ disturbed' = Crossed(k, FALSE)
  /\ UNCHANGED <<tree, idsUsed>>

\* onDelete: Cascade: what was put below it meanwhile goes too.
RemoveCategory(k) ==
  LET e == treeEdits[k]
  IN  /\ e.at = "remove" /\ Proceed(k, NoEdit)
      /\ tree' = IF ~Listed(e.category) THEN tree
                 ELSE IF e.hard THEN [c \in Categories |-> IF c \in Below(e.category) THEN NoCategory ELSE tree[c]]
                 ELSE [tree EXCEPT ![e.category].active = FALSE]
      /\ UNCHANGED disturbed

\* Mutation: the paths are not compared.
AskMoveAnywhere(k, c, p) ==
  /\ Idle(k) /\ Listed(c)
  /\ p \in Parents
  /\ Begins(k, [at |-> "move", category |-> c, parent |-> p,
                level |-> IF p = NoCategory THEN 0 ELSE tree[p].level + 1,
                path |-> IF p = NoCategory THEN <<tree[c].slug>> ELSE Append(tree[p].path, tree[c].slug)])
  /\ disturbed' = (Crossed(k, TRUE) \/ c = p)
  /\ UNCHANGED <<tree, idsUsed>>

\* moveCategory: not below a path that starts with the own one.
AskMove(k, c, p) ==
  /\ Idle(k) /\ Listed(c)
  /\ p \in Parents /\ ~(p # NoCategory /\ IsStrictPrefix(tree[c].path, tree[p].path))
  /\ Begins(k, [at |-> "move", category |-> c, parent |-> p,
                level |-> IF p = NoCategory THEN 0 ELSE tree[p].level + 1,
                path |-> IF p = NoCategory THEN <<tree[c].slug>> ELSE Append(tree[p].path, tree[c].slug)])
  /\ disturbed' = (Crossed(k, TRUE) \/ c = p)
  /\ UNCHANGED <<tree, idsUsed>>

\* Whose paths are to be written next: those of the children of c, in some order.
Onward(c, path, rest) ==
  {[at |-> "descend", rows |-> [i \in DOMAIN s |-> <<s[i], path>>] \o rest] : s \in SetToSeqs(ChildrenIn(tree', c))}

Move(k) ==
  LET e == treeEdits[k]
      ok == Listed(e.category) /\ ParentExists(e.parent) /\ Len(e.path) <= MaxPath
  IN  /\ e.at = "move"
      /\ IF ok
         THEN /\ tree' = [tree EXCEPT ![e.category] = [@ EXCEPT !.parent = e.parent, !.level = e.level, !.path = e.path]]
              /\ \E d \in Onward(e.category, e.path, <<>>) : Proceed(k, d)
         ELSE UNCHANGED tree /\ Proceed(k, NoEdit)
      /\ UNCHANGED disturbed

\* updateDescendantsPaths: one row, then the rows below it, then the next one.
Descend(k) ==
  /\ treeEdits[k].at = "descend" /\ treeEdits[k].rows # <<>>
  /\ LET row == Head(treeEdits[k].rows)
         path == Append(row[2], tree[row[1]].slug)
     IN  IF Listed(row[1]) /\ Len(path) <= MaxPath
         THEN /\ tree' = [tree EXCEPT ![row[1]] = [@ EXCEPT !.path = path, !.level = Len(row[2])]]
              /\ \E d \in Onward(row[1], path, Tail(treeEdits[k].rows)) : Proceed(k, d)
              /\ UNCHANGED disturbed
         ELSE UNCHANGED tree /\ Proceed(k, NoEdit) /\ disturbed' = TRUE

MoveEnds(k) ==
  /\ treeEdits[k].at = "descend" /\ treeEdits[k].rows = <<>> /\ Proceed(k, NoEdit)
  /\ UNCHANGED <<tree, disturbed>>

\* A statement fails, or the process stops.
EditFails(k) ==
  /\ treeEdits[k] # NoEdit /\ Proceed(k, NoEdit)
  /\ disturbed' = (disturbed \/ (treeEdits[k].at = "descend" /\ treeEdits[k].rows # <<>>))
  /\ UNCHANGED tree

-----------------------------------------------------------------------------
Init ==
  /\ tree = [c \in Categories |-> NoCategory]
  /\ treeEdits = [k \in Keepers |-> NoEdit]
  /\ idsUsed = {} /\ edited = 0 /\ disturbed = FALSE

Next ==
  \E k \in Keepers :
    \/ InsertNew(k) \/ Rename(k) \/ RemoveCategory(k) \/ Move(k) \/ Descend(k) \/ MoveEnds(k) \/ EditFails(k)
    \/ \E c \in Categories :
         \/ AskRename(k, c) \/ \E hard \in BOOLEAN : AskRemove(k, c, hard)
         \/ \E p \in Categories \cup {NoCategory} : AskNew(k, c, p) \/ AskMove(k, c, p)

Spec == Init /\ [][Next]_treeVars

-----------------------------------------------------------------------------
TypeOK ==
  \A c \in Categories :
    Listed(c) => Len(tree[c].path) \in 1..MaxPath /\ ParentExists(tree[c].parent)

\* Unless changes overlapped a move, one stopped half-way, or a parent was set
\* behind its back, every category is reached from a root, as the tree that is
\* shown requires, and its path continues that of its parent, whatever was
\* renamed, moved or removed (moveCategory, updateDescendantsPaths, buildTree).
TreeIsSound ==
  ~disturbed /\ ~(\E k \in Keepers : Moves(k)) =>
    \A c \in Categories :
      Listed(c) =>
        /\ Reached(c)
        /\ (tree[c].parent = NoCategory => tree[c].level = 0 /\ Len(tree[c].path) = 1)
        /\ tree[c].parent # NoCategory =>
             tree[c].level = tree[tree[c].parent].level + 1 /\ Front(tree[c].path) = tree[tree[c].parent].path
=============================================================================
