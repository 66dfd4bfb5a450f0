SPECIFICATION Spec
CONSTANTS
    plus = plus
    minus = minus
    enter = enter
    Buttons = {plus, minus, enter}
INVARIANTS HeldKeyIsWatched UnrestIsPolled ToldIsTrue
PROPERTY LastWordIsTrue
