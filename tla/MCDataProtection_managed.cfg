SPECIFICATION Spec
CONSTANT Texts <- MCTexts
INVARIANT RedactedMeansGone
